---- MODULE Spec2Model ----
(***************************************************************************)
(* RocBot: the retrieval-ranking and answer-orchestration engine.          *)
(*                                                                         *)
(*   backend/rag/llm_handler.py      RAGHandler (ask, ask_stream,          *)
(*                                   _handle_fallback, clear_conversation) *)
(*   backend/database/db_manager.py  DatabaseManager.search_content        *)
(*   backend/api/main.py             the /api/chat/stream SSE wrapper      *)
(*                                                                         *)
(* Text is modelled character by character: a Python str is a sequence of  *)
(* one-character strings, so lower(), strip(), split(), `in` and count()   *)
(* are computed as Python computes them.  A document body is a pair        *)
(* [text, pad]: the characters `text` followed by `pad` copies of Filler,  *)
(* a character that occurs in no query of the model; this keeps bodies of  *)
(* several thousand characters representable.                              *)
(***************************************************************************)
EXTENDS Integers, Sequences, FiniteSets, TLC

\* ------------------------------------------------------------------ text

Min(a, b) == IF a < b THEN a ELSE b
Max(a, b) == IF a > b THEN a ELSE b

\* str.lower() on the letters the model uses.
UpperMap ==
  [A |-> "a", B |-> "b", C |-> "c", D |-> "d", E |-> "e", F |-> "f", G |-> "g",
   H |-> "h", I |-> "i", J |-> "j", K |-> "k", L |-> "l", M |-> "m", N |-> "n",
   O |-> "o", P |-> "p", Q |-> "q", R |-> "r", S |-> "s", T |-> "t", U |-> "u",
   V |-> "v", W |-> "w", X |-> "x", Y |-> "y", Z |-> "z"]

LowerChar(ch) == IF ch \in DOMAIN UpperMap THEN UpperMap[ch] ELSE ch

Lower(s) == [i \in 1..Len(s) |-> LowerChar(s[i])]

\* The characters str.strip() and str.split() treat as whitespace.
Whitespace == {" ", "\t", "\n", "\r"}

\* string.punctuation (without the backquote, which a TLA+ string cannot hold
\* and no text of the model contains)
Punctuation ==
  {"!", "\"", "#", "$", "%", "&", "'", "(", ")", "*", "+", ",", "-", ".", "/",
   ":", ";", "<", "=", ">", "?", "@", "[", "\\", "]", "^", "_", "{", "|",
   "}", "~"}

RECURSIVE LStrip(_, _)
LStrip(s, cs) == IF s # <<>> /\ Head(s) \in cs THEN LStrip(Tail(s), cs) ELSE s

RECURSIVE RStrip(_, _)
RStrip(s, cs) ==
  IF s # <<>> /\ s[Len(s)] \in cs THEN RStrip(SubSeq(s, 1, Len(s) - 1), cs) ELSE s

\* str.strip(chars)
Strip(s, cs) == RStrip(LStrip(s, cs), cs)

RECURSIVE SplitFrom(_, _, _)
SplitFrom(s, i, cur) ==
  IF i > Len(s) THEN (IF cur = <<>> THEN <<>> ELSE <<cur>>)
  ELSE IF s[i] \in Whitespace
       THEN (IF cur = <<>> THEN <<>> ELSE <<cur>>) \o SplitFrom(s, i + 1, <<>>)
       ELSE SplitFrom(s, i + 1, Append(cur, s[i]))

\* str.split(): the maximal runs of non-whitespace characters, in order.
Split(s) == SplitFrom(s, 1, <<>>)

\* `sub in s`
Contains(s, sub) ==
  \E i \in 0..(Len(s) - Len(sub)) : SubSeq(s, i + 1, i + Len(sub)) = sub

RECURSIVE CountFrom(_, _, _)
CountFrom(s, sub, i) ==
  IF i + Len(sub) - 1 > Len(s) THEN 0
  ELSE IF SubSeq(s, i, i + Len(sub) - 1) = sub
       THEN 1 + CountFrom(s, sub, i + Len(sub))
       ELSE CountFrom(s, sub, i + 1)

\* SQL LIKE on already case-folded operands: % is any run, _ any character.
RECURSIVE Like(_, _)
Like(p, s) ==
  IF p = <<>> THEN s = <<>>
  ELSE IF Head(p) = "%"
       THEN Like(Tail(p), s) \/ (s # <<>> /\ Like(p, Tail(s)))
       ELSE /\ s # <<>>
            /\ (Head(p) = "_" \/ Head(p) = Head(s))
            /\ Like(Tail(p), Tail(s))

\* column.ilike(pattern)
ILike(s, p) == Like(Lower(p), Lower(s))

\* list[:n]
PyPrefix(s, n) ==
  IF n >= 0 THEN SubSeq(s, 1, Min(n, Len(s)))
  ELSE SubSeq(s, 1, Max(0, Len(s) + n))

\* A variant of PySuffix that keeps the whole list.
PySuffix_All(s, n) == s

\* list[-n:] for n > 0
PySuffix(s, n) == SubSeq(s, Max(1, Len(s) - n + 1), Len(s))

\* ------------------------------------------------------- document bodies

Filler == "*"

\* len(content_full)
BodyLen(b) == Len(b.text) + b.pad

\* The body's text with as many of its filler characters as an occurrence of
\* an n-character string that starts in the text can reach.
BodyNear(b, n) == b.text \o [i \in 1..Min(b.pad, Max(n, 0)) |-> Filler]

BodyLower(b) == [text |-> Lower(b.text), pad |-> b.pad]

BodyContains(b, sub) == Contains(BodyNear(b, Len(sub) - 1), sub)

BodyCount(b, sub) ==
  IF sub = <<>> THEN BodyLen(b) + 1 ELSE CountFrom(BodyNear(b, Len(sub) - 1), sub, 1)

BodyILike(b, p) == ILike(BodyNear(b, Len(p)), p)

\* content_full[:n]
BodyPrefix(b, n) ==
  IF Len(b.text) >= n THEN [text |-> SubSeq(b.text, 1, n), pad |-> 0]
  ELSE [text |-> b.text, pad |-> Min(b.pad, n - Len(b.text))]

\* ------------------------------------- DatabaseManager.search_content

\* stop_words (db_manager.py:85)
StopWords ==
  {<<"w", "h", "o">>,
   <<"i", "s">>,
   <<"t", "h", "e">>,
   <<"w", "h", "a", "t">>,
   <<"a", "r", "e">>,
   <<"t", "h", "e", "r", "e">>,
   <<"a", "n", "y">>,
   <<"h", "o", "w">>,
   <<"d", "o">>,
   <<"i">>,
   <<"i", "n">>,
   <<"o", "f">>,
   <<"t", "o">>,
   <<"a">>,
   <<"a", "n">>,
   <<"t", "h", "i", "s">>,
   <<"t", "h", "a", "t">>,
   <<"o", "r">>,
   <<"a", "n", "d">>}

\* A variant of Keywords without the fallback to the whole query.
Keywords_NoFallback(query) ==
  LET words == Split(Lower(query))
      cleaned_words == [i \in 1..Len(words) |-> Strip(words[i], Punctuation)]
  IN  SelectSeq(cleaned_words, LAMBDA w : w \notin StopWords /\ Len(w) > 2)

\* keywords (db_manager.py:81-95): the query's words, lower-cased, stripped of
\* punctuation, without stop words and words of at most two characters; the
\* whole lower-cased query when nothing is left.
Keywords(query) ==
  LET query_lower == Lower(query)
      words == Split(query_lower)
      cleaned_words == [i \in 1..Len(words) |-> Strip(words[i], Punctuation)]
      keywords == SelectSeq(cleaned_words, LAMBDA w : w \notin StopWords /\ Len(w) > 2)
  IN  IF keywords = <<>> THEN <<query_lower>> ELSE keywords

\* The filter of db_manager.py:103-107 on one row.
Matches(item, keyword) ==
  LET search_pattern == <<"%">> \o keyword \o <<"%">>
  IN  \/ ILike(item.title, search_pattern)
      \/ BodyILike(item.content_full, search_pattern)
      \/ ILike(item.description, search_pattern)

\* db_manager.py:100-112: per keyword, the matching rows in table order,
\* appended unless already in results.
RECURSIVE Candidates(_, _, _)
Candidates(rows, keywords, results) ==
  IF keywords = <<>> THEN results
  ELSE LET items == SelectSeq(rows, LAMBDA item : Matches(item, Head(keywords)))
           fresh == SelectSeq(items, LAMBDA item : \A j \in 1..Len(results) : results[j] # item)
       IN  Candidates(rows, Tail(keywords), results \o fresh)

\* The accumulated score of db_manager.py:116-130, before the length penalty.
RECURSIVE RawScore(_, _)
RawScore(item, keywords) ==
  IF keywords = <<>> THEN 0
  ELSE LET keyword == Head(keywords)
           title_lower == Lower(item.title)
           content_lower == BodyLower(item.content_full)
       IN  (IF Contains(title_lower, keyword) THEN 100 ELSE 0)
           + (IF BodyContains(content_lower, <<" ">> \o keyword \o <<" ">>) THEN 50 ELSE 0)
           + BodyCount(content_lower, keyword)
           + RawScore(item, Tail(keywords))

\* The thresholds of db_manager.py:134 and 136.
LongBody == 5000
VeryLongBody == 10000

\* A variant of RelevanceScore without the length penalty.
RelevanceScore_NoPenalty(item, keywords) == RawScore(item, keywords) * 10

\* relevance_score (db_manager.py:115-139) in tenths, so that the factors 0.5
\* and 0.3 stay integers: the elif branch is tried only when the if failed.
RelevanceScore(item, keywords) ==
  LET score == RawScore(item, keywords)
      content_length == BodyLen(item.content_full)
  IN  IF content_length > LongBody THEN score * 5
      ELSE IF content_length > VeryLongBody THEN score * 3
      ELSE score * 10

\* A variant of SortByScore that sorts ascending and reverses the list: items
\* of equal score come out in reverse order.
SortByScore_Reversed(items, keywords) ==
  LET n == Len(items)
      key(i) == RelevanceScore(items[i], keywords)
      place(i) == 1 + Cardinality({j \in 1..n :
                        key(j) > key(i) \/ (key(j) = key(i) /\ j > i)})
  IN  [k \in 1..n |-> items[CHOOSE i \in 1..n : place(i) = k]]

\* list.sort(key, reverse=True): stable, so an item goes after every item
\* whose key is at least its own.
RECURSIVE SortByScore(_, _)
SortByScore(items, keywords) ==
  IF items = <<>> THEN <<>>
  ELSE LET n == Len(items)
           sorted == SortByScore(SubSeq(items, 1, n - 1), keywords)
           x == items[n]
           k == Cardinality({j \in 1..Len(sorted) :
                   RelevanceScore(sorted[j], keywords) >= RelevanceScore(x, keywords)})
       IN  SubSeq(sorted, 1, k) \o <<x>> \o SubSeq(sorted, k + 1, Len(sorted))

\* search_content (db_manager.py:77-145)
SearchContent(rows, query, limit) ==
  LET keywords == Keywords(query)
      results == Candidates(rows, keywords, <<>>)
  IN  PyPrefix(SortByScore(results, keywords), limit)

\* A variant of SaveResult that overwrites the whole row but its id.
SaveResult_Replace(rows, item_data) ==
  IF \E i \in 1..Len(rows) : rows[i].url = item_data.url
  THEN [i \in 1..Len(rows) |->
          IF rows[i].url = item_data.url
          THEN [id |-> rows[i].id] @@ item_data ELSE rows[i]]
  ELSE Append(rows, [id |-> Len(rows) + 1] @@ item_data)

\* save_content_item (db_manager.py:18-41): on the row of an existing URL
\* every key of item_data but scraped_at is set, the row keeping its id; a
\* new URL gets a row with the next id.
SaveResult(rows, item_data) ==
  IF \E i \in 1..Len(rows) : rows[i].url = item_data.url
  THEN [i \in 1..Len(rows) |->
          IF rows[i].url = item_data.url
          THEN [key \in DOMAIN rows[i] \cup (DOMAIN item_data \ {"scraped_at"}) |->
                  IF key \in DOMAIN item_data \ {"scraped_at"}
                  THEN item_data[key] ELSE rows[i][key]]
          ELSE rows[i]]
  ELSE Append(rows, [id |-> Len(rows) + 1] @@ item_data)

\* The tags count_items asks for (db_manager.py:159 and 165).
CountedSources == {"cityofrochester", "eventbrite", "meetup"}
CountedCategories == {"news", "events", "services", "government", "departments", "general"}

\* count_items (db_manager.py:153-173)
CountItems(rows) ==
  [total |-> Len(rows),
   by_source |-> [source \in CountedSources |->
                    Cardinality({i \in 1..Len(rows) : rows[i].source = source})],
   by_category |-> [category \in CountedCategories |->
                      Cardinality({i \in 1..Len(rows) : rows[i].category = category})]]

\* FullSiteScraper._determine_category (full_site_scraper.py:195-216)
DetermineCategory(url) ==
  LET url_lower == Lower(url)
      has(part) == Contains(url_lower, part)
  IN  IF has(<<"/", "n", "e", "w", "s">>) THEN "news"
      ELSE IF has(<<"/", "e", "v", "e", "n", "t", "s">>) THEN "events"
      ELSE IF has(<<"/", "d", "e", "p", "a", "r", "t", "m", "e", "n", "t", "s">>)
      THEN "departments"
      ELSE IF \/ has(<<"/", "s", "e", "r", "v", "i", "c", "e", "s">>)
              \/ has(<<"/", "p", "e", "r", "m", "i", "t", "s">>)
              \/ has(<<"/", "l", "i", "c", "e", "n", "s", "e", "s">>)
      THEN "services"
      ELSE IF \/ has(<<"/", "m", "e", "e", "t", "i", "n", "g", "s">>)
              \/ has(<<"/", "c", "o", "u", "n", "c", "i", "l">>)
      THEN "government"
      ELSE IF \/ has(<<"/", "j", "o", "b", "s">>)
              \/ has(<<"/", "e", "m", "p", "l", "o", "y", "m", "e", "n", "t">>)
      THEN "employment"
      ELSE IF \/ has(<<"/", "p", "a", "r", "k", "s">>)
              \/ has(<<"/", "r", "e", "c", "r", "e", "a", "t", "i", "o", "n">>)
      THEN "recreation"
      ELSE IF has(<<"/", "b", "u", "s", "i", "n", "e", "s", "s">>) THEN "business"
      ELSE "general"

\* ------------------------------------------------- the model's inputs

\* The most exchanges (a question and its answer) the conversations hold
\* together, under Spec and under SpecDet.
MaxExchanges == 2
MaxExchangesDet == 1

ConvIds == {"c1", "c2"}
StreamIds == {"s1"}

Q_ZOO == <<"Z", "o", "o", "?">>
Questions == {Q_ZOO}

MaxSourcesChoices == {5}

ItemZoo ==
  [source |-> "cityofrochester", category |-> "general",
   title |-> <<"Z", "o", "o">>, description |-> <<>>,
   content_full |-> [text |-> <<"t", "h", "e", " ", "z", "o", "o", " ", "i", "s", " ", "o", "p", "e", "n">>, pad |-> 0],
   url |-> "u1"]
Items == {ItemZoo}

T_OPEN == <<"O", "p", "e", "n">>
T_NONE == <<"N", "o", " ", "m", "e", "n", "t", "i", "o", "n">>
ExcText == <<"d", "o", "w", "n">>

\* What the generation client can do on a plain call ...
GenOutcomes ==
  {[ok |-> TRUE, text |-> T_OPEN], [ok |-> TRUE, text |-> T_NONE],
   [ok |-> FALSE, text |-> ExcText]}

\* Stands for the outcome of a call that is not made.
NoOutcome == [ok |-> TRUE, text |-> <<"-">>]

\* ... and on a streaming call: the chunks it yields, then the end (ok) or an
\* exception.
StreamOutcomes ==
  {[chunks |-> <<<<"O", "p">>, <<"e", "n">>>>, ok |-> TRUE, text |-> <<>>],
   [chunks |-> <<T_NONE>>, ok |-> TRUE, text |-> <<>>],
   [chunks |-> <<<<"O", "p">>>>, ok |-> FALSE, text |-> ExcText]}

\* ------------------------------------------------ RAGHandler: pure parts

\* hashlib.md5(...).hexdigest(), taken to be injective: the digest of s is
\* the pair <<"md5", s>>.  It is never the empty string.
Md5Hex(s) == <<"md5", s>>

\* The "" ask_stream passes to _handle_fallback as cache_key.
EmptyKey == <<>>

\* A variant of CacheKey that hashes the question as it came.
CacheKey_Raw(question) == Md5Hex(question)

\* cache_key (llm_handler.py:50)
CacheKey(question) == Md5Hex(Strip(Lower(question), Whitespace))

\* The number of turns handed to generation (llm_handler.py:70, 150, 174).
HistoryWindow == 10

\* The characters of a body that _build_context copies (llm_handler.py:206).
ContextCap == 2000

\* insufficient_phrases (llm_handler.py:76-84)
InsufficientPhrases ==
  {<<"c", "o", "u", "l", "d", "n", "'", "t", " ", "f", "i", "n", "d">>,
   <<"d", "o", "n", "'", "t", " ", "h", "a", "v", "e">>,
   <<"n", "o", " ", "i", "n", "f", "o", "r", "m", "a", "t", "i", "o", "n">>,
   <<"d", "o", "e", "s", "n", "'", "t", " ", "s", "e", "e", "m", " ", "t", "o", " ", "b", "e">>,
   <<"n", "o", "t", " ", "m", "e", "n", "t", "i", "o", "n", "e", "d">>,
   <<"n", "o", " ", "m", "e", "n", "t", "i", "o", "n">>,
   <<"u", "n", "f", "o", "r", "t", "u", "n", "a", "t", "e", "l", "y">>}

\* A variant of IsInsufficient that accepts every answer.
IsInsufficient_Never(answer) == FALSE

\* is_insufficient (llm_handler.py:86-87)
IsInsufficient(answer) ==
  LET answer_lower == Lower(answer)
  IN  \E phrase \in InsufficientPhrases : Contains(answer_lower, phrase)

\* A variant of FormatSources that lists the items last to first.
FormatSources_Reversed(items) ==
  [i \in 1..Len(items) |->
     [title |-> items[Len(items) + 1 - i].title, url |-> items[Len(items) + 1 - i].url,
      source |-> items[Len(items) + 1 - i].source,
      category |-> items[Len(items) + 1 - i].category]]

\* _format_sources (llm_handler.py:344-354)
FormatSources(items) ==
  [i \in 1..Len(items) |->
     [title |-> items[i].title, url |-> items[i].url,
      source |-> items[i].source, category |-> items[i].category]]

\* A context whose blocks hold the whole bodies.
BuildContext_Whole(items) ==
  [i \in 1..Len(items) |->
     [index |-> i, title |-> items[i].title, source |-> items[i].source,
      url |-> items[i].url, content |-> items[i].content_full]]

\* _build_context (llm_handler.py:200-208): one block per item, in order; a
\* block is kept as the fields the f-strings interpolate.
BuildContext(items) ==
  [i \in 1..Len(items) |->
     [index |-> i, title |-> items[i].title, source |-> items[i].source,
      url |-> items[i].url, content |-> BodyPrefix(items[i].content_full, ContextCap)]]

\* history_text (llm_handler.py:214-219, 264-269, 307-312): one line per turn
\* of the window, "User: ..." or "Assistant: ...".
HistoryText(conversation_history) ==
  [i \in 1..Len(conversation_history) |->
     [role |-> IF conversation_history[i].role = "user" THEN "User" ELSE "Assistant",
      content |-> conversation_history[i].content]]

\* The three prompts differ in their fixed text, named here by `template`
\* (llm_handler.py:221-238, 271-284, 314-329); the fallback prompt has no
\* context slot.
Prompt(template, context, conversation_history, question) ==
  [template |-> template, context |-> context,
   history_text |-> HistoryText(conversation_history), question |-> question]

\* What one ollama.chat call does: it returns text (ok) or raises, str(e)
\* being `text`.
ErrGrounded == <<"I", " ", "e", "n", "c", "o", "u", "n", "t", "e", "r", "e", "d", " ", "a", "n", " ", "e", "r", "r", "o", "r", " ", "g", "e", "n", "e", "r", "a", "t", "i", "n", "g", " ", "a", "n", " ", "a", "n", "s", "w", "e", "r", ":", " ">>
ErrFallback == <<"I", " ", "c", "o", "u", "l", "d", "n", "'", "t", " ", "f", "i", "n", "d", " ", "t", "h", "i", "s", " ", "i", "n", "f", "o", "r", "m", "a", "t", "i", "o", "n", ":", " ">>
ErrStream == <<"E", "r", "r", "o", "r", ":", " ">>

\* _generate_answer (llm_handler.py:240-258)
GenerateAnswer(out) ==
  IF out.ok THEN out.text ELSE ErrGrounded \o out.text \o <<".">>

\* _generate_fallback_answer (llm_handler.py:331-342)
GenerateFallbackAnswer(out) ==
  IF out.ok THEN out.text ELSE ErrFallback \o out.text

Turn(role, content) == [role |-> role, content |-> content]

\* A variant of AppendExchange that starts the history over.
AppendExchange_Reset(convs, conversation_id, question, answer) ==
  [convs EXCEPT ![conversation_id] =
     <<Turn("user", question), Turn("assistant", answer)>>]

\* A variant of AppendExchange that appends the question only.
AppendExchange_UserOnly(convs, conversation_id, question, answer) ==
  [convs EXCEPT ![conversation_id] = @ \o <<Turn("user", question)>>]

\* The two appends of llm_handler.py:94-101, 158-165 and 178-185.
AppendExchange(convs, conversation_id, question, answer) ==
  [convs EXCEPT ![conversation_id] =
     @ \o <<Turn("user", question), Turn("assistant", answer)>>]

\* llm_handler.py:46-47 and 130-131
EnsureConversation(convs, conversation_id) ==
  IF conversation_id \in DOMAIN convs THEN convs
  ELSE (conversation_id :> <<>>) @@ convs

AnswerResult(answer, sources, query, conversation_id) ==
  [answer |-> answer, sources |-> sources, query |-> query,
   conversation_id |-> conversation_id]

\* A variant of CacheHit that never finds an entry.
CacheHit_Never(turns, cch, cache_key) == FALSE

\* The cache short-circuit of ask (llm_handler.py:52).
CacheHit(turns, cch, cache_key) ==
  Len(turns) = 0 /\ cache_key \in DOMAIN cch

\* A variant of CacheWritable that lets every turn write.
CacheWritable_Always(conversation_history) == TRUE

\* A variant of CacheWritable that lets no turn write.
CacheWritable_Never(conversation_history) == FALSE

\* The test both cache writes make on the history window
\* (llm_handler.py:111 and 194).
CacheWritable(conversation_history) ==
  Len(conversation_history) = 0

\* _handle_fallback (llm_handler.py:170-198).  `gen` lists the generation
\* calls made, each with its prompt and what the client did.
HandleFallback(convs, cch, question, conversation_id, cache_key, out) ==
  LET conversation_history == PySuffix(convs[conversation_id], HistoryWindow)
      fallback_answer == GenerateFallbackAnswer(out)
      result == AnswerResult(fallback_answer, <<>>, question, conversation_id)
  IN  [conversations |-> AppendExchange(convs, conversation_id, question, fallback_answer),
       cache |-> IF CacheWritable(conversation_history) /\ cache_key # EmptyKey
                 THEN (cache_key :> result) @@ cch ELSE cch,
       result |-> result,
       calls |-> <<"_generate_fallback_answer">>,
       gen |-> <<[prompt |-> Prompt("fallback", <<>>, conversation_history, question),
                  out |-> out]>>]

\* A variant of CachedResult that records the exchange served.
CachedResult_Recorded(convs, cch, cache_key, question, conversation_id) ==
  [conversations |-> AppendExchange(convs, conversation_id, question,
                                    cch[cache_key].answer),
   cache |-> cch, result |-> cch[cache_key], calls |-> <<>>, gen |-> <<>>]

\* The return of the cache short-circuit (llm_handler.py:52-54): the stored
\* result; no call is made and nothing is written.
CachedResult(convs, cch, cache_key, question, conversation_id) ==
  [conversations |-> convs, cache |-> cch, result |-> cch[cache_key],
   calls |-> <<>>, gen |-> <<>>]

\* ask (llm_handler.py:25-115).  relevant_items is what search_content
\* returns for the question (line 57), out1 what the client does on the
\* grounded call, out2 on the fallback call.
AskResult(convs0, cch, relevant_items, question, conversation_id, out1, out2) ==
  LET convs == EnsureConversation(convs0, conversation_id)
      cache_key == CacheKey(question)
  IN  IF CacheHit(convs[conversation_id], cch, cache_key)
      THEN CachedResult(convs, cch, cache_key, question, conversation_id)
      ELSE
      LET fb == HandleFallback(convs, cch, question, conversation_id, cache_key, out2)
      IN  IF relevant_items = <<>>
          THEN [fb EXCEPT !.calls = <<"search_content">> \o @]
          ELSE
          LET context == BuildContext(relevant_items)
              conversation_history == PySuffix(convs[conversation_id], HistoryWindow)
              answer == GenerateAnswer(out1)
              sources == FormatSources(relevant_items)
              grounded == [prompt |-> Prompt("rag", context, conversation_history, question),
                           out |-> out1]
              result == AnswerResult(answer, sources, question, conversation_id)
          IN  IF IsInsufficient(answer)
              THEN [fb EXCEPT !.calls = <<"search_content", "_generate_answer">> \o @,
                              !.gen = <<grounded>> \o @]
              ELSE [conversations |-> AppendExchange(convs, conversation_id, question, answer),
                    cache |-> IF CacheWritable(conversation_history)
                              THEN (cache_key :> result) @@ cch ELSE cch,
                    result |-> result,
                    calls |-> <<"search_content", "_generate_answer">>,
                    gen |-> <<grounded>>]

\* A variant of ClearResult that leaves the turns in place.
ClearResult_Keep(convs, conversation_id) ==
  [conversations |-> convs, raised |-> FALSE]

\* A variant of ClearResult that deletes without looking first.
ClearResult_Del(convs, conversation_id) ==
  [conversations |-> [c \in DOMAIN convs \ {conversation_id} |-> convs[c]],
   raised |-> conversation_id \notin DOMAIN convs]

\* clear_conversation (llm_handler.py:356-360): the conversations left, and
\* whether the call raised.
ClearResult(convs, conversation_id) ==
  [conversations |->
     IF conversation_id \in DOMAIN convs
     THEN [c \in DOMAIN convs \ {conversation_id} |-> convs[c]]
     ELSE convs,
   raised |-> FALSE]

\* ------------------------------------------------- FullSiteScraper
\* URLs are strings.  The site is what fetch_page returns for a URL: nothing
\* (the request failed), or a page with its hrefs in document order and
\* whether _extract_page_content makes an item of it.

\* base_url (full_site_scraper.py:21)
base_url == <<"h", "t", "t", "p", "s", ":", "/", "/", "w", "w", "w", ".", "c", "i", "t", "y", "o", "f", "r", "o", "c", "h", "e", "s", "t", "e", "r", ".", "g", "o", "v">>

\* 'cityofrochester.gov' (full_site_scraper.py:82)
SiteDomain == <<"c", "i", "t", "y", "o", "f", "r", "o", "c", "h", "e", "s", "t", "e", "r", ".", "g", "o", "v">>

\* skip_extensions (full_site_scraper.py:86)
skip_extensions ==
  {<<".", "p", "d", "f">>,
   <<".", "j", "p", "g">>,
   <<".", "p", "n", "g">>,
   <<".", "g", "i", "f">>,
   <<".", "z", "i", "p">>,
   <<".", "d", "o", "c">>,
   <<".", "x", "l", "s">>}

\* skip_paths (full_site_scraper.py:91)
skip_paths ==
  {<<"/", "u", "s", "e", "r", "/">>,
   <<"/", "a", "d", "m", "i", "n", "/">>,
   <<"/", "l", "o", "g", "i", "n">>,
   <<"/", "l", "o", "g", "o", "u", "t">>}

\* str.endswith
EndsWith(s, suffix) ==
  Len(suffix) <= Len(s) /\ SubSeq(s, Len(s) - Len(suffix) + 1, Len(s)) = suffix

\* s.split(ch)[0]: the part of s before the first ch.
RECURSIVE BeforeAny(_, _)
BeforeAny(s, chars) ==
  IF s = <<>> \/ Head(s) \in chars THEN <<>>
  ELSE <<Head(s)>> \o BeforeAny(Tail(s), chars)

\* The index at which "://" begins in url, 0 when it has none.
SchemeEnd(url) ==
  LET at == {i \in 1..(Len(url) - 2) : SubSeq(url, i, i + 2) = <<":", "/", "/">>}
  IN  IF at = {} THEN 0 ELSE CHOOSE i \in at : \A j \in at : i <= j

\* urlparse(url).netloc: what stands between "//" and the next "/", "?" or
\* "#"; empty for a URL without a scheme.
Netloc(url) ==
  IF SchemeEnd(url) = 0 THEN <<>>
  ELSE BeforeAny(SubSeq(url, SchemeEnd(url) + 3, Len(url)), {"/", "?", "#"})

\* _is_valid_url (full_site_scraper.py:77-95)
IsValidUrl(url) ==
  /\ Contains(Netloc(url), SiteDomain)
  /\ ~\E ext \in skip_extensions : EndsWith(Lower(url), ext)
  /\ ~\E skip \in skip_paths : Contains(Lower(url), skip)

\* urljoin(current_url, href) for the hrefs of the model: an absolute href
\* stands as it is, a href that starts with "/" replaces the path of
\* current_url.
UrlJoin(current_url, href) ==
  IF SchemeEnd(href) # 0 THEN href
  ELSE SubSeq(current_url, 1, SchemeEnd(current_url) + 2) \o Netloc(current_url) \o href

\* _extract_links (full_site_scraper.py:97-116): every href made absolute,
\* cut before its fragment and its query, and kept when valid.
RECURSIVE ExtractLinks(_, _)
ExtractLinks(current_url, hrefs) ==
  IF hrefs = <<>> THEN <<>>
  ELSE LET absolute_url ==
             BeforeAny(BeforeAny(UrlJoin(current_url, Head(hrefs)), {"#"}), {"?"})
       IN  (IF IsValidUrl(absolute_url) THEN <<absolute_url>> ELSE <<>>)
             \o ExtractLinks(current_url, Tail(hrefs))

InSeq(x, seq) == \E i \in 1..Len(seq) : seq[i] = x

\* The loop of full_site_scraper.py:60-62: a link is queued when it is
\* neither visited nor queued.
RECURSIVE AppendLinks(_, _, _)
AppendLinks(to_visit, visited_urls, new_links) ==
  IF new_links = <<>> THEN to_visit
  ELSE AppendLinks(IF Head(new_links) \notin visited_urls /\ ~InSeq(Head(new_links), to_visit)
                   THEN Append(to_visit, Head(new_links)) ELSE to_visit,
                   visited_urls, Tail(new_links))

IdleCrawler ==
  [pc |-> "idle", max_pages |-> 0, to_visit |-> <<>>, visited_urls |-> {},
   all_content |-> <<>>, fetched |-> <<>>]

\* ------------------------------------------------------------ the model

EmptyMap == [x \in {} |-> x]

VARIABLES
  db,             \* the content_items table, in row order
  conversations,  \* RAGHandler.conversations: conversation id -> turns
  cache,          \* RAGHandler.cache: cache key -> AnswerResult
  streams,        \* the ask_stream generators, one per streaming request
  replies,        \* prompt -> what the client did (kept by SpecDet only)
  last,           \* the operation the last step performed and what it returned
  first_turn,     \* <<id, question>> -> result of the latest first-turn ask
  cleared,        \* ids cleared and not asked about since
  crawler         \* the FullSiteScraper at work, and what it has fetched

vars == <<db, conversations, cache, streams, replies, last, first_turn, cleared,
          crawler>>

TurnsIn(convs, conversation_id) ==
  IF conversation_id \in DOMAIN convs THEN convs[conversation_id] ELSE <<>>

Turns(conversation_id) == TurnsIn(conversations, conversation_id)

IdleStream ==
  [pc |-> "idle", question |-> <<>>, conversation_id |-> "", relevant_items |-> <<>>,
   rest |-> <<>>, raises |-> FALSE, exc |-> <<>>, full_answer |-> <<>>,
   events |-> <<>>, prior |-> 0, failed |-> FALSE, rows |-> <<>>, history |-> <<>>,
   max_sources |-> 0, context |-> <<>>, sent |-> <<>>]

\* Of a stream, `prior` is the number of turns the conversation held at the
\* call, `rows` the table then, `history` the history lines of the prompt of
\* its generation call, `context` the context of that prompt, `failed`
\* whether that call raised, `max_sources` the limit of the call, and `sent`
\* the frames generate() has sent of its own after the events it forwarded.

\* `known` says whether a cleared id had a session, `prior` how many turns
\* the conversation held when the operation began.
\* `client` lists, for an ask, the generation calls made and what the client
\* did on each; `max_sources` is the ask's limit.
Op(op, question, conversation_id, max_sources, known, prior, result, calls, client, raised) ==
  [op |-> op, question |-> question, conversation_id |-> conversation_id,
   max_sources |-> max_sources, known |-> known, prior |-> prior,
   result |-> result, calls |-> calls, client |-> client, raised |-> raised]

\* The calls of `gen`, of each prompt the template and the history lines.
ClientCalls(gen) ==
  [i \in 1..Len(gen) |->
     [call |-> gen[i].prompt.template, context |-> gen[i].prompt.context,
      history |-> gen[i].prompt.history_text, out |-> gen[i].out]]

Init ==
  /\ db = <<>>
  /\ conversations = EmptyMap
  /\ cache = EmptyMap
  /\ streams = [s \in StreamIds |-> IdleStream]
  /\ replies = EmptyMap
  /\ last = Op("init", <<>>, "", 0, FALSE, 0, <<>>, <<>>, <<>>, FALSE)
  /\ first_turn = EmptyMap
  /\ cleared = {}
  /\ crawler = IdleCrawler

\* A deterministic client answers a prompt it has seen as it did before.
Consistent(gen) ==
  \A i \in 1..Len(gen) :
    gen[i].prompt \in DOMAIN replies => replies[gen[i].prompt] = gen[i].out

\* The generation calls made are those whose outcome is not NoOutcome.
Made(gen, template) == \E i \in 1..Len(gen) : gen[i].prompt.template = template

RECURSIVE Recorded(_, _)
Recorded(gen, memo) ==
  IF gen = <<>> THEN memo
  ELSE Recorded(Tail(gen), (Head(gen).prompt :> Head(gen).out) @@ memo)

\* POST /api/chat (main.py:97-127): handler.ask runs to completion, the
\* client doing out1 on a grounded call and out2 on a fallback call.
AskOutcome(relevant_items, question, conversation_id, max_sources, det, out1, out2) ==
  LET r == AskResult(conversations, cache, relevant_items, question,
                     conversation_id, out1, out2)
  IN  /\ Made(r.gen, "rag") <=> out1 # NoOutcome
      /\ Made(r.gen, "fallback") <=> out2 # NoOutcome
      /\ det => Consistent(r.gen)
      /\ conversations' = r.conversations
      /\ cache' = r.cache
      /\ replies' = IF det THEN Recorded(r.gen, replies) ELSE replies
      /\ last' = Op("ask", question, conversation_id, max_sources, FALSE,
                    Len(Turns(conversation_id)),
                    <<r.result>>, r.calls, ClientCalls(r.gen), FALSE)
      /\ first_turn' = IF Turns(conversation_id) = <<>>
                       THEN (<<conversation_id, question>> :> r.result) @@ first_turn
                       ELSE first_turn
      /\ cleared' = cleared \ {conversation_id}
      /\ UNCHANGED <<db, streams, crawler>>

Ask(question, conversation_id, max_sources, det) ==
  LET relevant_items == SearchContent(db, question, max_sources)
  IN  \E out1 \in GenOutcomes \cup {NoOutcome}, out2 \in GenOutcomes \cup {NoOutcome} :
        AskOutcome(relevant_items, question, conversation_id, max_sources, det,
                   out1, out2)

\* DELETE /api/conversation/{id} (main.py:189-209)
ClearConversation(conversation_id) ==
  LET r == ClearResult(conversations, conversation_id)
  IN  /\ conversations' = r.conversations
      /\ last' = Op("clear", <<>>, conversation_id, 0,
                    conversation_id \in DOMAIN conversations, Len(Turns(conversation_id)),
                    <<>>, <<>>, <<>>, r.raised)
      /\ cleared' = cleared \cup {conversation_id}
      /\ UNCHANGED <<db, cache, streams, replies, first_turn, crawler>>

\* A scraper run stores one item (db_manager.py:18-41).
SaveContentItem(item_data) ==
  /\ db' = SaveResult(db, item_data)
  /\ last' = Op("save", <<>>, "", 0, FALSE, 0, <<item_data>>, <<>>, <<>>, FALSE)
  /\ UNCHANGED <<conversations, cache, streams, replies, first_turn, cleared, crawler>>

\* --------------------------------------------------------- ask_stream
\* handler.ask_stream is a generator driven by main.py's generate(), which
\* awaits after every event it forwards: the code between two yields runs
\* without interruption, and other requests run between the steps below.

Event(type, data) == [type |-> type, data |-> data]

\* ask_stream from the call to its first yield (llm_handler.py:127-146);
\* relevant_items is what search_content returns on the table `rows`
\* (line 134).
StartResult(convs0, cch, rows, relevant_items, question, conversation_id, out) ==
  LET convs == EnsureConversation(convs0, conversation_id)
      st == [IdleStream EXCEPT !.question = question,
                               !.conversation_id = conversation_id,
                               !.prior = Len(convs[conversation_id]),
                               !.rows = rows]
  IN  IF relevant_items = <<>>
      THEN LET fb == HandleFallback(convs, cch, question, conversation_id, EmptyKey, out)
           IN  [stream |-> [st EXCEPT !.pc = "fbtoken",
                                      !.full_answer = fb.result.answer,
                                      !.failed = ~out.ok,
                                      !.history = fb.gen[1].prompt.history_text,
                                      !.events = <<Event("token", fb.result.answer)>>],
                conversations |-> fb.conversations, cache |-> fb.cache, gen |-> fb.gen]
      ELSE [stream |-> [st EXCEPT !.pc = "sources",
                                  !.relevant_items = relevant_items,
                                  !.events = <<Event("sources", FormatSources(relevant_items))>>],
            conversations |-> convs, cache |-> cch, gen |-> <<>>]

\* A variant of AdvanceResult that sends `done` without recording the exchange.
AdvanceResult_Unrecorded(st, convs) ==
  IF st.rest # <<>>
  THEN [stream |-> [st EXCEPT !.pc = "token", !.rest = Tail(@),
                              !.full_answer = @ \o Head(st.rest),
                              !.events = Append(@, Event("token", Head(st.rest)))],
        conversations |-> convs]
  ELSE IF st.raises
  THEN LET chunk == ErrStream \o st.exc
       IN  [stream |-> [st EXCEPT !.pc = "token", !.raises = FALSE, !.failed = TRUE,
                                  !.full_answer = @ \o chunk,
                                  !.events = Append(@, Event("token", chunk))],
            conversations |-> convs]
  ELSE IF st.conversation_id \notin DOMAIN convs
  THEN [stream |-> [st EXCEPT !.pc = "raised"], conversations |-> convs]
  ELSE [stream |-> [st EXCEPT !.pc = "done",
                              !.events = Append(@, Event("done",
                                  [conversation_id |-> st.conversation_id]))],
        conversations |-> convs]

\* One resumption inside or after the loop of llm_handler.py:153-168: the
\* next chunk; or the chunk the except branch of _generate_answer_stream
\* yields (llm_handler.py:300-302); or, the chunks exhausted, the two appends
\* and `done` - a KeyError when the conversation is gone.
AdvanceResult(st, convs) ==
  IF st.rest # <<>>
  THEN [stream |-> [st EXCEPT !.pc = "token", !.rest = Tail(@),
                              !.full_answer = @ \o Head(st.rest),
                              !.events = Append(@, Event("token", Head(st.rest)))],
        conversations |-> convs]
  ELSE IF st.raises
  THEN LET chunk == ErrStream \o st.exc
       IN  [stream |-> [st EXCEPT !.pc = "token", !.raises = FALSE, !.failed = TRUE,
                                  !.full_answer = @ \o chunk,
                                  !.events = Append(@, Event("token", chunk))],
            conversations |-> convs]
  ELSE IF st.conversation_id \notin DOMAIN convs
  THEN [stream |-> [st EXCEPT !.pc = "raised"], conversations |-> convs]
  ELSE [stream |-> [st EXCEPT !.pc = "done",
                              !.events = Append(@, Event("done",
                                  [conversation_id |-> st.conversation_id]))],
        conversations |-> AppendExchange(convs, st.conversation_id, st.question,
                                         st.full_answer)]

\* After the `sources` yield (llm_handler.py:148-155): the history window is
\* read (a KeyError when the conversation is gone), the client is called and
\* the generator runs to its next yield.
GenerateResult(st, convs, sout) ==
  IF st.conversation_id \notin DOMAIN convs
  THEN [stream |-> [st EXCEPT !.pc = "raised"], conversations |-> convs, gen |-> <<>>]
  ELSE LET context == BuildContext(st.relevant_items)
           conversation_history == PySuffix(convs[st.conversation_id], HistoryWindow)
           r == AdvanceResult([st EXCEPT !.rest = sout.chunks, !.raises = ~sout.ok,
                                         !.exc = sout.text,
                                         !.history = HistoryText(conversation_history),
                                         !.context = context],
                              convs)
       IN  [stream |-> r.stream, conversations |-> r.conversations,
            gen |-> <<[prompt |-> Prompt("stream", context, conversation_history,
                                         st.question),
                       out |-> sout]>>]

\* A fallback `done` without the source list.
FallbackDoneResult_NoSources(st) ==
  [st EXCEPT !.pc = "done",
             !.events = Append(@, Event("done",
                 [conversation_id |-> st.conversation_id]))]

\* After the fallback's single token (llm_handler.py:141).
FallbackDoneResult(st) ==
  [st EXCEPT !.pc = "done",
             !.events = Append(@, Event("done",
                 [sources |-> <<>>, conversation_id |-> st.conversation_id]))]

StreamOp == Op("ask_stream", <<>>, "", 0, FALSE, 0, <<>>, <<>>, <<>>, FALSE)

\* POST /api/chat/stream (main.py:130-182): the first next() on the generator.
StreamStart(s, question, conversation_id, max_sources, det) ==
  LET relevant_items == SearchContent(db, question, max_sources)
  IN  \E out \in GenOutcomes \cup {NoOutcome} :
  LET r == StartResult(conversations, cache, db, relevant_items, question,
                       conversation_id, out)
  IN  /\ streams[s].pc = "idle"
      /\ Made(r.gen, "fallback") <=> out # NoOutcome
      /\ det => Consistent(r.gen)
      /\ streams' = [streams EXCEPT ![s] = [r.stream EXCEPT !.max_sources = max_sources]]
      /\ conversations' = r.conversations
      /\ cache' = r.cache
      /\ replies' = IF det THEN Recorded(r.gen, replies) ELSE replies
      /\ last' = StreamOp
      /\ cleared' = cleared \ {conversation_id}
      /\ UNCHANGED <<db, first_turn, crawler>>

StreamGenerate(s, sout, det) ==
  LET r == GenerateResult(streams[s], conversations, sout)
  IN  /\ streams[s].pc = "sources"
      /\ det => Consistent(r.gen)
      /\ streams' = [streams EXCEPT ![s] = r.stream]
      /\ conversations' = r.conversations
      /\ replies' = IF det THEN Recorded(r.gen, replies) ELSE replies
      /\ last' = StreamOp
      /\ UNCHANGED <<db, cache, first_turn, cleared, crawler>>

StreamNext(s) ==
  LET r == AdvanceResult(streams[s], conversations)
  IN  /\ streams[s].pc = "token"
      /\ streams' = [streams EXCEPT ![s] = r.stream]
      /\ conversations' = r.conversations
      /\ last' = StreamOp
      /\ UNCHANGED <<db, cache, replies, first_turn, cleared, crawler>>

StreamFallbackDone(s) ==
  /\ streams[s].pc = "fbtoken"
  /\ streams' = [streams EXCEPT ![s] = FallbackDoneResult(streams[s])]
  /\ last' = StreamOp
  /\ UNCHANGED <<db, conversations, cache, replies, first_turn, cleared, crawler>>

\* The generator returns after `done` (llm_handler.py:168) and generate()
\* sends `complete` (main.py:164); the request is over.
StreamClose(s) ==
  /\ streams[s].pc = "done"
  /\ streams' = [streams EXCEPT ![s] = IdleStream]
  /\ last' = StreamOp
  /\ UNCHANGED <<db, conversations, cache, replies, first_turn, cleared, crawler>>

\* The generator has raised: generate() sends `error` (main.py:166-172); the
\* request is over.
StreamAbort(s) ==
  /\ streams[s].pc = "raised"
  /\ streams' = [streams EXCEPT ![s] = IdleStream]
  /\ last' = StreamOp
  /\ UNCHANGED <<db, conversations, cache, replies, first_turn, cleared, crawler>>

RECURSIVE SumLen(_)
SumLen(S) ==
  IF S = {} THEN 0
  ELSE LET c == CHOOSE x \in S : TRUE IN Len(conversations[c]) + SumLen(S \ {c})

\* Turns the conversations hold or have been promised by streams under way.
Capacity ==
  SumLen(DOMAIN conversations)
    + 2 * Cardinality({s \in StreamIds : streams[s].pc \in {"sources", "token"}})

Step(det, max_exchanges) ==
  \/ \E question \in Questions, conversation_id \in ConvIds,
        max_sources \in MaxSourcesChoices :
       /\ Capacity + 2 <= 2 * max_exchanges
       /\ Ask(question, conversation_id, max_sources, det)
  \/ \E conversation_id \in ConvIds : ClearConversation(conversation_id)
  \/ \E item_data \in Items : SaveContentItem(item_data)
  \/ \E s \in StreamIds, question \in Questions, conversation_id \in ConvIds,
        max_sources \in MaxSourcesChoices :
       /\ Capacity + 2 <= 2 * max_exchanges
       /\ StreamStart(s, question, conversation_id, max_sources, det)
  \/ \E s \in StreamIds, sout \in StreamOutcomes : StreamGenerate(s, sout, det)
  \/ \E s \in StreamIds : StreamNext(s)
  \/ \E s \in StreamIds : StreamFallbackDone(s)
  \/ \E s \in StreamIds : StreamClose(s)
  \/ \E s \in StreamIds : StreamAbort(s)

Next == Step(FALSE, MaxExchanges)

Spec == Init /\ [][Next]_vars

\* The same program with a generation client that is a function of the
\* messages it receives.
NextDet == Step(TRUE, MaxExchangesDet)

SpecDet == Init /\ [][NextDet]_vars

\* ------------------------------------------------- the grounded answer
\* ask() on a table of one document, the client returning on the grounded
\* call one of the answers below.

A_COULDNT == <<"S", "o", "r", "r", "y", ",", " ", "I", " ", "c", "o", "u",
             "l", "d", "n", "'", "t", " ", "f", "i", "n", "d", " ", "i",
             "t", ".">>
A_COULDNT_UP == <<"I", " ", "C", "O", "U", "L", "D", "N", "'", "T", " ", "F",
                "I", "N", "D", " ", "I", "T">>
A_DONT == <<"I", " ", "d", "o", "n", "'", "t", " ", "h", "a", "v", "e",
          " ", "t", "h", "a", "t", ".">>
A_DONT_UP == <<"W", "e", " ", "D", "o", "n", "'", "t", " ", "H", "a", "v",
             "e", " ", "i", "t">>
A_NOINFO == <<"T", "h", "e", "r", "e", " ", "i", "s", " ", "n", "o", " ",
            "i", "n", "f", "o", "r", "m", "a", "t", "i", "o", "n", ".">>
A_NOINFO_UP == <<"N", "O", " ", "I", "N", "F", "O", "R", "M", "A", "T", "I",
               "O", "N", " ", "h", "e", "r", "e">>
A_NOTMENT == <<"I", "t", " ", "i", "s", " ", "n", "o", "t", " ", "m", "e",
             "n", "t", "i", "o", "n", "e", "d", ".">>
A_NOTMENT_UP == <<"N", "o", "t", " ", "M", "e", "n", "t", "i", "o", "n", "e",
                "d">>
A_UNABLE == <<"I", " ", "w", "a", "s", " ", "u", "n", "a", "b", "l", "e",
            " ", "t", "o", " ", "f", "i", "n", "d", " ", "i", "t", ".">>
A_UNABLE_UP == <<"U", "n", "a", "b", "l", "e", " ", "T", "o", " ", "F", "i",
               "n", "d", " ", "t", "h", "a", "t">>

AnswerOutcomes ==
  {[ok |-> TRUE, text |-> text] :
     text \in {T_OPEN, A_COULDNT, A_COULDNT_UP, A_DONT, A_DONT_UP, A_NOINFO,
              A_NOINFO_UP, A_NOTMENT, A_NOTMENT_UP, A_UNABLE, A_UNABLE_UP}}

InitAnswers ==
  /\ db = SaveResult(<<>>, ItemZoo)
  /\ conversations = EmptyMap
  /\ cache = EmptyMap
  /\ streams = [s \in StreamIds |-> IdleStream]
  /\ replies = EmptyMap
  /\ last = Op("init", <<>>, "", 0, FALSE, 0, <<>>, <<>>, <<>>, FALSE)
  /\ first_turn = EmptyMap
  /\ cleared = {}
  /\ crawler = IdleCrawler

NextAnswers ==
  \E question \in Questions, conversation_id \in ConvIds, max_sources \in MaxSourcesChoices,
     out1 \in AnswerOutcomes \cup {NoOutcome}, out2 \in GenOutcomes \cup {NoOutcome} :
    /\ Capacity + 2 <= 2 * MaxExchanges
    /\ AskOutcome(SearchContent(db, question, max_sources), question, conversation_id,
                  max_sources, FALSE, out1, out2)

SpecAnswers == InitAnswers /\ [][NextAnswers]_vars

\* ------------------------------------------------- long conversations
\* One ask or one streaming ask on a conversation that holds up to
\* MaxPriorExchanges exchanges, with the table empty or holding a document.

MaxPriorExchanges == 6

Digits == <<"0", "1", "2", "3", "4", "5", "6", "7", "8", "9">>

\* The i-th turn of such a conversation: "m01", "m02", ...
PriorTurn(i) ==
  Turn(IF i % 2 = 1 THEN "user" ELSE "assistant",
       <<"m", Digits[(i \div 10) + 1], Digits[(i % 10) + 1]>>)

PriorHistory(exchanges) == [i \in 1..(2 * exchanges) |-> PriorTurn(i)]

InitWindow ==
  /\ db \in {<<>>} \cup {SaveResult(<<>>, item_data) : item_data \in Items}
  /\ conversations \in
       {EmptyMap} \cup {("c1" :> PriorHistory(n)) : n \in 0..MaxPriorExchanges}
  /\ cache = EmptyMap
  /\ streams = [s \in StreamIds |-> IdleStream]
  /\ replies = EmptyMap
  /\ last = Op("init", <<>>, "", 0, FALSE, 0, <<>>, <<>>, <<>>, FALSE)
  /\ first_turn = EmptyMap
  /\ cleared = {}
  /\ crawler = IdleCrawler

NextWindow ==
  \/ \E question \in Questions, max_sources \in MaxSourcesChoices :
       /\ last.op = "init"
       /\ Ask(question, "c1", max_sources, FALSE)
  \/ \E s \in StreamIds, question \in Questions, max_sources \in MaxSourcesChoices :
       /\ last.op = "init"
       /\ StreamStart(s, question, "c1", max_sources, FALSE)
  \/ \E s \in StreamIds, sout \in StreamOutcomes : StreamGenerate(s, sout, FALSE)
  \/ \E s \in StreamIds : StreamNext(s)
  \/ \E s \in StreamIds : StreamFallbackDone(s)
  \/ \E s \in StreamIds : StreamClose(s)

SpecWindow == InitWindow /\ [][NextWindow]_vars

\* ------------------------------------------------------------ ranking
\* search_content on its own: a table of up to MaxRows documents, then
\* searches with the queries and limits below.

MaxRows == 3

Q_MAYOR == <<"w", "h", "o", " ", "i", "s", " ", "t", "h", "e", " ", "m", "a", "y", "o", "r">>
Q_MAYOR_PARK == <<"M", "a", "y", "o", "r", " ", "p", "a", "r", "k", "?">>
Q_EMPTY == <<>>
Q_STOP == <<"i", "s", " ", "t", "h", "e">>
Q_SHORT == <<"H", "i", " ", "o", "k">>
Q_BLANK == <<" ">>
Q_UNDERSCORE == <<"p", "a", "r", "k", "_", "c", "l", "e", "a", "n", "u", "p">>
RankQueries == {Q_MAYOR, Q_MAYOR_PARK, Q_EMPTY, Q_STOP, Q_SHORT, Q_BLANK, Q_UNDERSCORE}

RankLimits == {1, 5}

T_COUNCIL == <<"C", "i", "t", "y", " ", "C", "o", "u", "n", "c", "i", "l",
               " ", "M", "e", "e", "t", "i", "n", "g">>
T_PARK_CLEANUP == <<"P", "a", "r", "k", " ", "C", "l", "e", "a", "n", "u", "p">>
T_MAYOR == <<"M", "a", "y", "o", "r">>
T_PARK == <<"P", "a", "r", "k">>
T_BUDGET == <<"B", "u", "d", "g", "e", "t">>

B_SPOKE == <<"t", "h", "e", " ", "m", "a", "y", "o", "r", " ", "s", "p",
             "o", "k", "e">>
B_DOT == <<"a", "s", "k", " ", "t", "h", "e", " ", "m", "a", "y", "o",
           "r", ".">>
B_CAME == <<"a", " ", "m", "a", "y", "o", "r", " ", "c", "a", "m", "e">>
B_NEWS == <<"n", "e", "w", "s">>

\* A document whose body is `text` followed by filler up to `length` characters.
RankItem(title, description, text, length, url) ==
  [source |-> "cityofrochester", category |-> "general",
   title |-> title, description |-> description,
   content_full |-> [text |-> text, pad |-> length - Len(text)],
   url |-> url]

RankItems ==
  {RankItem(T_COUNCIL, <<>>, B_SPOKE, 500, "u1"),
   RankItem(T_COUNCIL, <<>>, B_DOT, 500, "u2"),
   RankItem(T_PARK_CLEANUP, <<>>, B_CAME, 12000, "u3"),
   RankItem(T_MAYOR, <<>>, B_NEWS, 4, "u4"),
   RankItem(T_MAYOR, <<>>, B_NEWS, 5001, "u5"),
   RankItem(T_PARK, <<>>, B_NEWS, 4, "u6"),
   RankItem(T_BUDGET, T_MAYOR, B_NEWS, 4, "u7"),
   RankItem(T_BUDGET, T_MAYOR, B_NEWS, 10001, "u8"),
   RankItem(T_BUDGET, <<>>, B_SPOKE, 5000, "u9"),
   RankItem(T_BUDGET, <<>>, B_SPOKE, 10000, "u10"),
   RankItem(T_BUDGET, <<>>, B_SPOKE, 10001, "u11")}

\* The tables that at most n calls of save_content_item build.
RECURSIVE Tables(_)
Tables(n) ==
  IF n = 0 THEN {<<>>}
  ELSE LET shorter == Tables(n - 1)
       IN  shorter \cup {SaveResult(rows, item_data) :
                           rows \in shorter, item_data \in RankItems}

\* One call of search_content: the keywords, the candidates in the order they
\* were found, of each candidate the score before the length penalty
\* (`accumulated`) and after it (`scores`), and the list returned.
SearchOp(query, limit, keywords, candidates, result) ==
  [op |-> "search", query |-> query, limit |-> limit, keywords |-> keywords,
   candidates |-> candidates,
   accumulated |-> [i \in 1..Len(candidates) |-> RawScore(candidates[i], keywords)],
   scores |-> [i \in 1..Len(candidates) |-> RelevanceScore(candidates[i], keywords)],
   result |-> result]

InitRank ==
  /\ db \in Tables(MaxRows)
  /\ conversations = EmptyMap
  /\ cache = EmptyMap
  /\ streams = [s \in StreamIds |-> IdleStream]
  /\ replies = EmptyMap
  /\ last = Op("init", <<>>, "", 0, FALSE, 0, <<>>, <<>>, <<>>, FALSE)
  /\ first_turn = EmptyMap
  /\ cleared = {}
  /\ crawler = IdleCrawler

Search(query, limit) ==
  /\ last' = SearchOp(query, limit, Keywords(query),
                      Candidates(db, Keywords(query), <<>>),
                      SearchContent(db, query, limit))
  /\ UNCHANGED <<db, conversations, cache, streams, replies, first_turn, cleared, crawler>>

\* A search leaves the table as it is, so one search per table shows them all.
NextRank ==
  \E query \in RankQueries, limit \in RankLimits :
    /\ last.op = "init"
    /\ Search(query, limit)

SpecRank == InitRank /\ [][NextRank]_vars

\* ------------------------------------------------------- SSE responses
\* generate() of main.py forwards every event of ask_stream as a frame and
\* then sends a frame of its own.  Here the response of a request is kept
\* after its last frame instead of being forgotten, and one request is made.

\* A variant of ErrorResult that sends `complete` after `error`.
ErrorResult_ThenComplete(st) ==
  [st EXCEPT !.pc = "closed", !.sent = @ \o <<"error", "complete">>]

\* The generator is exhausted: generate() sends `complete` (main.py:164).
CompleteResult(st) == [st EXCEPT !.pc = "closed", !.sent = Append(@, "complete")]

\* The generator raised: generate() sends `error` (main.py:166-172).
ErrorResult(st) == [st EXCEPT !.pc = "closed", !.sent = Append(@, "error")]

\* The frames of the response: the events forwarded (main.py:151-158), then
\* what generate() sent of its own.
Frames(st) == [i \in 1..Len(st.events) |-> st.events[i].type] \o st.sent

SseComplete(s) ==
  /\ streams[s].pc = "done"
  /\ streams' = [streams EXCEPT ![s] = CompleteResult(streams[s])]
  /\ last' = StreamOp
  /\ UNCHANGED <<db, conversations, cache, replies, first_turn, cleared, crawler>>

SseError(s) ==
  /\ streams[s].pc = "raised"
  /\ streams' = [streams EXCEPT ![s] = ErrorResult(streams[s])]
  /\ last' = StreamOp
  /\ UNCHANGED <<db, conversations, cache, replies, first_turn, cleared, crawler>>

NextSse ==
  \/ \E item_data \in Items : SaveContentItem(item_data)
  \/ \E s \in StreamIds, question \in Questions, conversation_id \in ConvIds,
        max_sources \in MaxSourcesChoices :
       StreamStart(s, question, conversation_id, max_sources, FALSE)
  \/ \E s \in StreamIds, sout \in StreamOutcomes : StreamGenerate(s, sout, FALSE)
  \/ \E s \in StreamIds : StreamNext(s)
  \/ \E s \in StreamIds : StreamFallbackDone(s)
  \/ \E s \in StreamIds : SseComplete(s)
  \/ \E s \in StreamIds : SseError(s)
  \/ \E conversation_id \in ConvIds : ClearConversation(conversation_id)

SpecSse == Init /\ [][NextSse]_vars

\* ---------------------------------------------------------- citations
\* One ask or one streaming ask on a table of up to MaxCitedRows documents.

MaxCitedRows == 2

CiteQuestions == {Q_MAYOR, Q_MAYOR_PARK}

InitCite ==
  /\ db \in Tables(MaxCitedRows)
  /\ conversations = EmptyMap
  /\ cache = EmptyMap
  /\ streams = [s \in StreamIds |-> IdleStream]
  /\ replies = EmptyMap
  /\ last = Op("init", <<>>, "", 0, FALSE, 0, <<>>, <<>>, <<>>, FALSE)
  /\ first_turn = EmptyMap
  /\ cleared = {}
  /\ crawler = IdleCrawler

NextCite ==
  \/ \E question \in CiteQuestions, conversation_id \in ConvIds,
        max_sources \in RankLimits :
       /\ last.op = "init"
       /\ Ask(question, conversation_id, max_sources, FALSE)
  \/ \E s \in StreamIds, question \in CiteQuestions, conversation_id \in ConvIds,
        max_sources \in RankLimits :
       /\ last.op = "init"
       /\ StreamStart(s, question, conversation_id, max_sources, FALSE)
  \/ \E s \in StreamIds, sout \in StreamOutcomes : StreamGenerate(s, sout, FALSE)
  \/ \E s \in StreamIds : StreamNext(s)
  \/ \E s \in StreamIds : StreamFallbackDone(s)
  \/ \E s \in StreamIds : StreamClose(s)

SpecCite == InitCite /\ [][NextCite]_vars

\* ---------------------------------------------------------- the store
\* The scrapers save pages and events, up to MaxStoredRows rows, and
\* count_items is asked in between.

MaxStoredRows == 3

U_NEWS == <<"/", "n", "e", "w", "s", "/", "a">>
U_EVENTS == <<"/", "E", "v", "e", "n", "t", "s">>
U_JOBS == <<"/", "j", "o", "b", "s">>
U_HOME == <<"/">>
U_TICKET == <<"/", "e", "/", "1">>
U_GROUP == <<"/", "m", "/", "1">>
PageUrls == {U_NEWS, U_EVENTS, U_JOBS, U_HOME}

\* A crawl finds a page with one of two titles; scraped_at is the time of
\* the crawl.
Crawls == {[title |-> <<"A">>, scraped_at |-> 1], [title |-> <<"B">>, scraped_at |-> 2]}

StoredItem(source, category, url, crawl) ==
  [source |-> source, category |-> category, title |-> crawl.title,
   description |-> crawl.title, content_full |-> [text |-> crawl.title, pad |-> 100],
   url |-> url, scraped_at |-> crawl.scraped_at]

\* What the scrapers hand to save_content_item (full_site_scraper.py:149-159,
\* eventbrite_scraper.py:131-145, meetup_scraper.py:175-185).
ScrapedItems ==
  {StoredItem("cityofrochester", DetermineCategory(url), url, crawl) :
     url \in PageUrls, crawl \in Crawls}
    \cup {StoredItem("eventbrite", "events", U_TICKET, crawl) : crawl \in Crawls}
    \cup {StoredItem("meetup", "events", U_GROUP, crawl) : crawl \in Crawls}

\* GET /api/stats (main.py:270-286)
GetStats ==
  /\ last' = [op |-> "count_items", stats |-> CountItems(db)]
  /\ UNCHANGED <<db, conversations, cache, streams, replies, first_turn, cleared, crawler>>

NextStore ==
  \/ \E item_data \in ScrapedItems :
       /\ \/ Len(db) < MaxStoredRows
          \/ \E i \in 1..Len(db) : db[i].url = item_data.url
       /\ SaveContentItem(item_data)
  \/ GetStats

SpecStore == Init /\ [][NextStore]_vars

\* ------------------------------------------------------------ cache keys
\* Asks and clears with questions that differ in letter case, in leading or
\* trailing whitespace, or in their text.

Q_ZOO_UPPER == <<"Z", "O", "O", "?">>
Q_ZOO_SPACED == <<" ", "z", "o", "o", "?", "\n">>
Q_ZOO_PLAIN == <<"Z", "o", "o">>
KeyQuestions == {Q_ZOO, Q_ZOO_UPPER, Q_ZOO_SPACED, Q_ZOO_PLAIN}

\* The most exchanges the conversations hold together under SpecKeys.
MaxKeyExchanges == 1

\* Under SpecKeys the client answers every call alike.
KeyOutcomes == {[ok |-> TRUE, text |-> T_OPEN]}

NextKeys ==
  \/ \E question \in KeyQuestions, conversation_id \in ConvIds,
        max_sources \in MaxSourcesChoices,
        out1 \in KeyOutcomes \cup {NoOutcome}, out2 \in KeyOutcomes \cup {NoOutcome} :
       /\ Capacity + 2 <= 2 * MaxKeyExchanges
       /\ AskOutcome(SearchContent(db, question, max_sources), question,
                     conversation_id, max_sources, FALSE, out1, out2)
  \/ \E conversation_id \in ConvIds : ClearConversation(conversation_id)

SpecKeys == InitAnswers /\ [][NextKeys]_vars

\* ------------------------------------------------------------ the crawl
\* One FullSiteScraper is made and scrape() runs on a site of a few URLs,
\* one pass of the while loop per step.

\* The largest max_pages of a crawl.
MaxPagesBound == 4

U_PAGE_A == <<"h", "t", "t", "p", "s", ":", "/", "/", "w", "w", "w", ".", "c", "i", "t", "y", "o", "f", "r", "o", "c", "h", "e", "s", "t", "e", "r", ".", "g", "o", "v", "/", "a">>
U_PAGE_B == <<"h", "t", "t", "p", "s", ":", "/", "/", "w", "w", "w", ".", "c", "i", "t", "y", "o", "f", "r", "o", "c", "h", "e", "s", "t", "e", "r", ".", "g", "o", "v", "/", "n", "e", "w", "s", "/", "b">>
U_FILE == <<"h", "t", "t", "p", "s", ":", "/", "/", "w", "w", "w", ".", "c", "i", "t", "y", "o", "f", "r", "o", "c", "h", "e", "s", "t", "e", "r", ".", "g", "o", "v", "/", "f", ".", "P", "D", "F">>
U_LOGIN == <<"h", "t", "t", "p", "s", ":", "/", "/", "w", "w", "w", ".", "c", "i", "t", "y", "o", "f", "r", "o", "c", "h", "e", "s", "t", "e", "r", ".", "g", "o", "v", "/", "L", "o", "g", "i", "n">>
U_ELSEWHERE == <<"h", "t", "t", "p", "s", ":", "/", "/", "x", ".", "o", "r", "g", "/", "c", "i", "t", "y", "o", "f", "r", "o", "c", "h", "e", "s", "t", "e", "r", ".", "g", "o", "v">>

\* hrefs as they stand in a page: relative, with a fragment, with a query.
H_A_TOP == <<"/", "a", "#", "t", "o", "p">>
H_B == <<"/", "n", "e", "w", "s", "/", "b">>
H_B_QUERY == <<"h", "t", "t", "p", "s", ":", "/", "/", "w", "w", "w", ".", "c", "i", "t", "y", "o", "f", "r", "o", "c", "h", "e", "s", "t", "e", "r", ".", "g", "o", "v", "/", "n", "e", "w", "s", "/", "b", "?", "p", "=", "1">>

\* The href lists of the pages.
LinkLists ==
  {<<>>,
   <<H_A_TOP, H_B>>,
   <<H_B_QUERY, U_PAGE_A, H_B>>,
   <<U_FILE, U_ELSEWHERE, U_LOGIN>>,
   <<base_url, H_A_TOP>>}

\* fetch_page returned None (base_scraper.py:26-28).
NoPage == [ok |-> FALSE, hrefs |-> <<>>, has_content |-> FALSE]

\* What fetch_page can return for a URL.
FetchOutcomes ==
  {NoPage} \cup {[ok |-> TRUE, hrefs |-> hrefs, has_content |-> has_content] :
                   hrefs \in LinkLists, has_content \in BOOLEAN}

\* The seed_urls of the constructor; none stands for the default.
SeedLists ==
  {<<>>, <<U_PAGE_A>>, <<U_PAGE_B, U_PAGE_B>>, <<U_ELSEWHERE, U_PAGE_A>>, <<U_FILE>>}

\* The item _extract_page_content makes of a page (full_site_scraper.py:149-159).
PageItem(url) ==
  StoredItem("cityofrochester", DetermineCategory(url), url,
             [title |-> <<"A">>, scraped_at |-> 1])

\* FullSiteScraper(max_pages, seed_urls) (full_site_scraper.py:18-27)
NewCrawler(max_pages, seed_urls) ==
  [pc |-> "loop", max_pages |-> max_pages,
   to_visit |-> IF seed_urls # <<>> THEN seed_urls ELSE <<base_url>>,
   visited_urls |-> {}, all_content |-> <<>>, fetched |-> <<>>]

\* The test of the while loop (full_site_scraper.py:34).
CrawlGoesOn(cr) ==
  cr.to_visit # <<>> /\ Cardinality(cr.visited_urls) < cr.max_pages

\* A variant of CrawlResult that does not look whether the URL was visited.
CrawlResult_Revisit(cr, page) ==
  LET current_url == Head(cr.to_visit)
      to_visit == Tail(cr.to_visit)
  IN  IF FALSE
      THEN [cr EXCEPT !.to_visit = to_visit]
      ELSE IF ~IsValidUrl(current_url)
      THEN [cr EXCEPT !.to_visit = to_visit]
      ELSE IF ~page.ok
      THEN [cr EXCEPT !.to_visit = to_visit,
                      !.visited_urls = @ \cup {current_url},
                      !.fetched = Append(@, [url |-> current_url, ok |-> FALSE, links |-> <<>>])]
      ELSE LET new_links == ExtractLinks(current_url, page.hrefs)
           IN  [cr EXCEPT !.to_visit = AppendLinks(to_visit, cr.visited_urls, new_links),
                          !.visited_urls = @ \cup {current_url},
                          !.all_content = IF page.has_content
                                          THEN Append(@, PageItem(current_url)) ELSE @,
                          !.fetched = Append(@, [url |-> current_url, ok |-> TRUE,
                                                 links |-> new_links])]

\* A variant of CrawlResult that leaves a visited URL at the head of the queue.
CrawlResult_NoPop(cr, page) ==
  LET current_url == Head(cr.to_visit)
      to_visit == Tail(cr.to_visit)
  IN  IF current_url \in cr.visited_urls
      THEN cr
      ELSE IF ~IsValidUrl(current_url)
      THEN [cr EXCEPT !.to_visit = to_visit]
      ELSE IF ~page.ok
      THEN [cr EXCEPT !.to_visit = to_visit,
                      !.visited_urls = @ \cup {current_url},
                      !.fetched = Append(@, [url |-> current_url, ok |-> FALSE, links |-> <<>>])]
      ELSE LET new_links == ExtractLinks(current_url, page.hrefs)
           IN  [cr EXCEPT !.to_visit = AppendLinks(to_visit, cr.visited_urls, new_links),
                          !.visited_urls = @ \cup {current_url},
                          !.all_content = IF page.has_content
                                          THEN Append(@, PageItem(current_url)) ELSE @,
                          !.fetched = Append(@, [url |-> current_url, ok |-> TRUE,
                                                 links |-> new_links])]

\* One pass of the loop body (full_site_scraper.py:35-65), `page` being what
\* fetch_page returns when it is called; `fetched` lists the URLs handed to
\* fetch_page, each with whether a page came back and the links taken from it.
CrawlResult(cr, page) ==
  LET current_url == Head(cr.to_visit)
      to_visit == Tail(cr.to_visit)
  IN  IF current_url \in cr.visited_urls
      THEN [cr EXCEPT !.to_visit = to_visit]
      ELSE IF ~IsValidUrl(current_url)
      THEN [cr EXCEPT !.to_visit = to_visit]
      ELSE IF ~page.ok
      THEN [cr EXCEPT !.to_visit = to_visit,
                      !.visited_urls = @ \cup {current_url},
                      !.fetched = Append(@, [url |-> current_url, ok |-> FALSE, links |-> <<>>])]
      ELSE LET new_links == ExtractLinks(current_url, page.hrefs)
           IN  [cr EXCEPT !.to_visit = AppendLinks(to_visit, cr.visited_urls, new_links),
                          !.visited_urls = @ \cup {current_url},
                          !.all_content = IF page.has_content
                                          THEN Append(@, PageItem(current_url)) ELSE @,
                          !.fetched = Append(@, [url |-> current_url, ok |-> TRUE,
                                                 links |-> new_links])]

\* save_multiple (db_manager.py:52-63)
RECURSIVE SaveMultiple(_, _)
SaveMultiple(rows, items_data) ==
  IF items_data = <<>> THEN rows
  ELSE SaveMultiple(SaveResult(rows, Head(items_data)), Tail(items_data))

\* The scraper is made and scrape() is called (test_full_crawler.py:27-31).
StartCrawl(max_pages, seed_urls) ==
  /\ crawler.pc = "idle"
  /\ crawler' = NewCrawler(max_pages, seed_urls)
  /\ UNCHANGED <<db, conversations, cache, streams, replies, last, first_turn, cleared>>

CrawlStep(page) ==
  /\ crawler.pc = "loop"
  /\ CrawlGoesOn(crawler)
  /\ crawler' = CrawlResult(crawler, page)
  /\ UNCHANGED <<db, conversations, cache, streams, replies, last, first_turn, cleared>>

\* The loop is left and the items are saved (full_site_scraper.py:67-75).
CrawlFinish ==
  /\ crawler.pc = "loop"
  /\ ~CrawlGoesOn(crawler)
  /\ crawler' = [crawler EXCEPT !.pc = "done"]
  /\ db' = SaveMultiple(db, crawler.all_content)
  /\ UNCHANGED <<conversations, cache, streams, replies, last, first_turn, cleared>>

NextCrawl ==
  \/ \E max_pages \in 0..MaxPagesBound, seed_urls \in SeedLists :
       StartCrawl(max_pages, seed_urls)
  \/ \E page \in FetchOutcomes : CrawlStep(page)
  \/ CrawlFinish

SpecCrawl == Init /\ [][NextCrawl]_vars

\* scrape() is sequential code and fetch_page returns within its timeout
\* (base_scraper.py:23), so the loop keeps running until it is left.
SpecCrawlRuns ==
  /\ SpecCrawl
  /\ WF_vars((\E page \in FetchOutcomes : CrawlStep(page)) \/ CrawlFinish)


\* ---------------------------------------------------------- properties

HasEvent(events, type) == \E i \in 1..Len(events) : events[i].type = type

CountEvents(events, type) ==
  Cardinality({i \in 1..Len(events) : events[i].type = type})

\* The `token` payloads of an event sequence, concatenated in order.
RECURSIVE TokenText(_)
TokenText(events) ==
  IF events = <<>> THEN <<>>
  ELSE (IF Head(events).type = "token" THEN Head(events).data ELSE <<>>)
         \o TokenText(Tail(events))

\* The step just taken was ask(question, conversation_id), begun with no
\* prior turns.
FirstTurnAsk ==
  last'.op = "ask" /\ last'.prior = 0

\* C1: when ask() is called for a question and a conversation id for which
\* an earlier ask() was made, the conversation holding no turns at the start
\* of either call, the second call returns the AnswerResult of the first,
\* which is the one the cache holds, and calls neither search_content nor a
\* generation method.
C1_SecondFirstTurnAskIsServedFromCache ==
  [][(FirstTurnAsk /\ <<last'.conversation_id, last'.question>> \in DOMAIN first_turn)
       => /\ last'.result = <<first_turn[<<last'.conversation_id, last'.question>>]>>
          /\ CacheKey(last'.question) \in DOMAIN cache
          /\ last'.result = <<cache[CacheKey(last'.question)]>>
          /\ last'.calls = <<>>]_vars

\* ask(Q_ZOO, "c1") has just been served from the cache, and every first-turn
\* ask so far was for "c1": the entry was written by an earlier first-turn
\* ask of the same question on "c1".
C1_Witness ==
  /\ last.op = "ask" /\ last.conversation_id = "c1" /\ last.question = Q_ZOO
  /\ last.prior = 0 /\ last.calls = <<>>
  /\ DOMAIN first_turn = {<<"c1", Q_ZOO>>}
  /\ last.result = <<cache[CacheKey(Q_ZOO)]>>

\* C2: an ask() on a conversation that holds at least one turn runs
\* search_content and a generation method whatever the cache holds, and
\* leaves the cache as it was; so a step that changes the cache is taken by an
\* ask() begun with no prior turns.
C2_LaterTurnsBypassCache ==
  [][/\ (last'.op = "ask" /\ last'.prior > 0)
          => /\ cache' = cache
             /\ Len(last'.calls) >= 2
             /\ last'.calls[1] = "search_content"
             /\ last'.calls[Len(last'.calls)]
                  \in {"_generate_answer", "_generate_fallback_answer"}
     /\ cache' # cache => FirstTurnAsk]_vars

\* A second-turn ask() of a question the cache holds has run retrieval and
\* generation.
C2_Witness ==
  /\ last.op = "ask" /\ last.prior = 2
  /\ CacheKey(last.question) \in DOMAIN cache
  /\ last.calls # <<>>
  /\ Len(conversations[last.conversation_id]) = 4

\* C3: whenever ask() or ask_stream() has delivered an answer to a
\* conversation that held no turns when the call began, the cache holds the
\* delivered result under the question's key.
C3_FirstTurnDeliveryIsCached ==
  /\ (last.op = "ask" /\ last.prior = 0)
       => /\ CacheKey(last.question) \in DOMAIN cache
          /\ <<cache[CacheKey(last.question)]>> = last.result
  /\ \A s \in StreamIds :
       (streams[s].pc = "done" /\ streams[s].prior = 0)
         => /\ CacheKey(streams[s].question) \in DOMAIN cache
            /\ cache[CacheKey(streams[s].question)].answer = TokenText(streams[s].events)

\* What the step of stream s did to the histories: the fallback path appends
\* the exchange before its token (llm_handler.py:178-185), the grounded path
\* with `done` (llm_handler.py:158-165), and no other step touches a turn.
C4_StreamStep(s) ==
  LET st == streams'[s]
      c == st.conversation_id
      exchange == <<Turn("user", st.question), Turn("assistant", TokenText(st.events))>>
      others == \A d \in ConvIds \ {c} :
                  TurnsIn(conversations', d) = TurnsIn(conversations, d)
  IN  IF streams[s].pc = "idle" /\ st.pc = "fbtoken"
      THEN TurnsIn(conversations', c) = Turns(c) \o exchange /\ others
      ELSE IF streams[s].pc \in {"sources", "token"} /\ st.pc = "done"
      THEN TurnsIn(conversations', c) = Turns(c) \o exchange /\ others
      ELSE \A d \in ConvIds : TurnsIn(conversations', d) = TurnsIn(conversations, d)

\* C4: an ask() that is not served from the cache, and an ask_stream() that
\* delivers, extend the conversation's history by the user turn with the
\* question then the assistant turn with the answer delivered, every earlier
\* turn and every other conversation staying as it was.
C4_DeliveryAppendsOneExchange ==
  [][/\ (last'.op = "ask" /\ last'.calls # <<>>)
          => /\ TurnsIn(conversations', last'.conversation_id)
                  = Turns(last'.conversation_id)
                      \o <<Turn("user", last'.question),
                           Turn("assistant", last'.result[1].answer)>>
             /\ \A d \in ConvIds \ {last'.conversation_id} :
                  TurnsIn(conversations', d) = TurnsIn(conversations, d)
     /\ \A s \in StreamIds : streams'[s] # streams[s] => C4_StreamStep(s)]_vars

\* A grounded stream begun on a conversation of two turns has delivered: the
\* conversation holds four turns, the last two being the stream's exchange.
C4_Witness ==
  \E s \in StreamIds :
    /\ streams[s].pc = "done" /\ streams[s].prior = 2
    /\ HasEvent(streams[s].events, "sources")
    /\ streams[s].conversation_id \in DOMAIN conversations
    /\ Len(conversations[streams[s].conversation_id]) = 4
    /\ conversations[streams[s].conversation_id][4]
         = Turn("assistant", TokenText(streams[s].events))

\* C5: clear_conversation(id) leaves id without turns, and the next ask() for
\* id starts with no prior turns: it returns the cached result without search
\* or generation when the cache holds the question, and otherwise stores its
\* result in the cache.
C5_AskAfterClearIsFirstTurn ==
  [][/\ last'.op = "clear" => TurnsIn(conversations', last'.conversation_id) = <<>>
     /\ (last'.op = "ask" /\ last'.conversation_id \in cleared)
          => /\ last'.prior = 0
             /\ CacheKey(last'.question) \in DOMAIN cache
                  => /\ last'.calls = <<>>
                     /\ last'.result = <<cache[CacheKey(last'.question)]>>
                     /\ cache' = cache
             /\ CacheKey(last'.question) \notin DOMAIN cache
                  => /\ last'.calls # <<>>
                     /\ CacheKey(last'.question) \in DOMAIN cache'
                     /\ <<cache'[CacheKey(last'.question)]>> = last'.result]_vars

\* A stream delivered an exchange to a conversation, and the ask() just made
\* on that conversation began with no turns and wrote the cache: the
\* conversation was cleared in between.
C5_Witness ==
  \E s \in StreamIds :
    /\ streams[s].pc = "done" /\ streams[s].conversation_id = last.conversation_id
    /\ last.op = "ask" /\ last.prior = 0 /\ last.calls # <<>>
    /\ Len(conversations[last.conversation_id]) = 2
    /\ <<cache[CacheKey(last.question)]>> = last.result

\* C6: clear_conversation(id) never raises; on an id without session it
\* changes nothing; a second clear of the same id would change nothing; and
\* no clear changes the turns of another conversation or the cache.
C6_ClearIsIdempotentAndLocal ==
  [][last'.op = "clear"
       => /\ ~last'.raised
          /\ ~last'.known => conversations' = conversations
          /\ ClearResult(conversations', last'.conversation_id).conversations
               = conversations'
          /\ \A d \in ConvIds \ {last'.conversation_id} :
               /\ d \in DOMAIN conversations' <=> d \in DOMAIN conversations
               /\ TurnsIn(conversations', d) = TurnsIn(conversations, d)
          /\ cache' = cache]_vars

\* "c1" had no session when it was cleared, while "c2" holds turns and the
\* cache an entry.
C6_Witness ==
  /\ last.op = "clear" /\ last.conversation_id = "c1" /\ ~last.known
  /\ "c2" \in DOMAIN conversations /\ conversations["c2"] # <<>>
  /\ cache # EmptyMap

\* C7: the events of an ask_stream() call whose generator has finished have
\* `sources`, when present, first and once, and exactly one `done`, which is
\* last, so that every `token` lies between them.
C7_EventsAreOrdered ==
  \A s \in StreamIds :
    streams[s].pc \in {"done", "raised"}
      => LET events == streams[s].events
         IN  /\ \A i \in 1..Len(events) : events[i].type = "sources" => i = 1
             /\ CountEvents(events, "done") = 1
             /\ events[Len(events)].type = "done"

\* C8: a grounded stream whose generation call has failed holds one `error`
\* event, which is its last event, and no `done` event.
C8_FailedStreamEndsWithError ==
  \A s \in StreamIds :
    (streams[s].failed /\ HasEvent(streams[s].events, "sources"))
      => LET events == streams[s].events
         IN  /\ CountEvents(events, "error") = 1
             /\ events[Len(events)].type = "error"
             /\ ~HasEvent(events, "done")

\* C9: a stream that has delivered after a `sources` event delivered an
\* answer without insufficiency phrase.
C9_SourcesOnlyWhenAccepted ==
  \A s \in StreamIds :
    (streams[s].pc = "done" /\ HasEvent(streams[s].events, "sources"))
      => ~IsInsufficient(TokenText(streams[s].events))

\* C10: with a client that is a function of its messages, when ask() has just
\* returned an accepted grounded answer, a delivered ask_stream() of the same
\* question on the same conversation id, both begun on an empty history and
\* on the same table, has token payloads that concatenate to that answer.
C10_StreamTextEqualsAskAnswer ==
  \A s \in StreamIds :
    (/\ last.op = "ask" /\ last.prior = 0
     /\ last.calls = <<"search_content", "_generate_answer">>
     /\ streams[s].pc = "done" /\ HasEvent(streams[s].events, "sources")
     /\ streams[s].question = last.question
     /\ streams[s].conversation_id = last.conversation_id
     /\ streams[s].history = <<>>
     /\ streams[s].rows = db)
      => TokenText(streams[s].events) = last.result[1].answer

\* The generation call `call` of the ask just made, as a set: empty when the
\* call was not made.
ClientOut(call) ==
  {last.client[i].out : i \in {j \in 1..Len(last.client) : last.client[j].call = call}}

\* C11: when search_content finds nothing and the client raises on the
\* fallback call, ask() raises and returns no result, and ask_stream() emits
\* no `token` event and, once finished, has ended with an `error` event.
C11_FallbackFailureIsAnError ==
  /\ (/\ last.op = "ask"
      /\ last.calls = <<"search_content", "_generate_fallback_answer">>
      /\ \E out \in ClientOut("fallback") : ~out.ok)
       => last.raised /\ last.result = <<>>
  /\ \A s \in StreamIds :
       (streams[s].failed /\ ~HasEvent(streams[s].events, "sources"))
         => LET events == streams[s].events
            IN  /\ ~HasEvent(events, "token")
                /\ streams[s].pc = "done" => events[Len(events)].type = "error"

\* C12: when the client raises on the grounded call of ask(), the fallback
\* generation is called and the result returned carries no citation.
C12_GroundedFailureGoesToFallback ==
  (last.op = "ask" /\ \E out \in ClientOut("rag") : ~out.ok)
    => /\ last.calls = <<"search_content", "_generate_answer",
                         "_generate_fallback_answer">>
       /\ last.result[1].sources = <<>>

\* C13: an ask() not served from the cache calls search_content; on an empty
\* result it calls the fallback generation and no grounded generation; on a
\* non-empty result it generates a grounded candidate, returns it with the
\* citations of the items found when it contains no insufficiency phrase, and
\* otherwise returns the fallback answer; every result of the fallback has an
\* empty source list.
C13_AskRoutesAsStated ==
  (last.op = "ask" /\ last.calls # <<>>)
    => LET relevant_items == SearchContent(db, last.question, last.max_sources)
           res == last.result[1]
       IN  IF relevant_items = <<>>
           THEN /\ last.calls = <<"search_content", "_generate_fallback_answer">>
                /\ \E out \in ClientOut("fallback") :
                     res.answer = GenerateFallbackAnswer(out)
                /\ res.sources = <<>>
           ELSE \E out1 \in ClientOut("rag") :
                  LET candidate == GenerateAnswer(out1)
                  IN  IF \E phrase \in InsufficientPhrases :
                            Contains(Lower(candidate), phrase)
                      THEN /\ last.calls = <<"search_content", "_generate_answer",
                                             "_generate_fallback_answer">>
                           /\ \E out2 \in ClientOut("fallback") :
                                res.answer = GenerateFallbackAnswer(out2)
                           /\ res.sources = <<>>
                      ELSE /\ last.calls = <<"search_content", "_generate_answer">>
                           /\ res.answer = candidate
                           /\ res.sources = FormatSources(relevant_items)

\* An ask() found a document, got an insufficient candidate and returned the
\* fallback answer without citations.
C13_Witness ==
  /\ last.op = "ask"
  /\ last.calls = <<"search_content", "_generate_answer", "_generate_fallback_answer">>
  /\ SearchContent(db, last.question, last.max_sources) # <<>>
  /\ last.result[1].sources = <<>>
  /\ last.result[1].answer = T_OPEN

\* The history lines of the last min(10, n) of the n turns `turns`, in order.
LastTenLines(turns) ==
  LET n == Len(turns)
      k == IF n < 10 THEN n ELSE 10
  IN  [i \in 1..k |->
         [role |-> IF turns[n - k + i].role = "user" THEN "User" ELSE "Assistant",
          content |-> turns[n - k + i].content]]

\* C14: the prompt of every generation call - grounded and fallback calls of
\* ask(), the streaming call and the fallback call of ask_stream() - lists
\* the last min(10, n) of the conversation's n turns in their order, and the
\* n turns stay in the store, first in the conversation's list.
C14_GenerationGetsLastTenTurns ==
  [][/\ last'.op = "ask"
          => /\ \A i \in 1..Len(last'.client) :
                  last'.client[i].history = LastTenLines(Turns(last'.conversation_id))
             /\ SubSeq(TurnsIn(conversations', last'.conversation_id), 1,
                       Len(Turns(last'.conversation_id)))
                  = Turns(last'.conversation_id)
     /\ \A s \in StreamIds :
          LET st == streams'[s]
              c == st.conversation_id
          IN  (streams[s].pc \in {"idle", "sources"}
                 /\ st.pc \in {"fbtoken", "token", "done"})
                => /\ st.history = LastTenLines(Turns(c))
                   /\ SubSeq(TurnsIn(conversations', c), 1, Len(Turns(c))) = Turns(c)]_vars

\* A grounded ask() and a grounded stream on a conversation of twelve turns:
\* the prompt listed ten turns, starting with the third of the twelve.
C14_Witness ==
  \/ /\ last.op = "ask" /\ last.prior = 12
     /\ last.calls = <<"search_content", "_generate_answer">>
     /\ Len(last.client[1].history) = 10
     /\ last.client[1].history[1].content = PriorTurn(3).content
     /\ Len(conversations[last.conversation_id]) = 14
     /\ conversations[last.conversation_id][1] = PriorTurn(1)
  \/ \E s \in StreamIds :
       /\ streams[s].pc = "done" /\ streams[s].prior = 12
       /\ HasEvent(streams[s].events, "sources")
       /\ Len(streams[s].history) = 10
       /\ streams[s].history[1].content = PriorTurn(3).content
       /\ conversations[streams[s].conversation_id][1] = PriorTurn(1)

\* The place of `item` among the candidates of the last search, and in the
\* table.
CandidateIndex(item) == CHOOSE i \in 1..Len(last.candidates) : last.candidates[i] = item
RowIndex(item) == CHOOSE i \in 1..Len(db) : db[i] = item

\* The score the last search gave `item`, in tenths.
ScoreOf(item) == last.scores[CandidateIndex(item)]

\* C15: search_content returns candidates in non-increasing order of score,
\* and of two returned documents of equal score the one found first as a
\* candidate comes first.
C15_ResultsAreSortedStably ==
  last.op = "search" =>
    /\ \A i \in 1..Len(last.result) :
         \E j \in 1..Len(last.candidates) : last.candidates[j] = last.result[i]
    /\ \A i, j \in 1..Len(last.result) :
         i < j =>
           /\ ScoreOf(last.result[i]) >= ScoreOf(last.result[j])
           /\ ScoreOf(last.result[i]) = ScoreOf(last.result[j])
                => CandidateIndex(last.result[i]) < CandidateIndex(last.result[j])

\* A search returned two documents of equal positive score that were found
\* as candidates in the reverse of their order in the table, and a third
\* document of smaller score after them.
C15_Witness ==
  /\ last.op = "search"
  /\ Len(last.result) = 3
  /\ ScoreOf(last.result[1]) = ScoreOf(last.result[2])
  /\ ScoreOf(last.result[1]) > 0
  /\ RowIndex(last.result[1]) > RowIndex(last.result[2])
  /\ ScoreOf(last.result[2]) > ScoreOf(last.result[3])

\* Every keyword of the last search is in the title of `item` and none is in
\* its body; and the other way round.
InTitleOnly(item) ==
  \A i \in 1..Len(last.keywords) :
    /\ Contains(Lower(item.title), last.keywords[i])
    /\ ~BodyContains(BodyLower(item.content_full), last.keywords[i])

InBodyOnly(item) ==
  \A i \in 1..Len(last.keywords) :
    /\ ~Contains(Lower(item.title), last.keywords[i])
    /\ BodyContains(BodyLower(item.content_full), last.keywords[i])

\* C16: of two candidates of a search, one with every keyword in its title
\* and none in its body scores strictly higher than one with every keyword in
\* its body and none in its title.
C16_TitleOnlyBeatsBodyOnly ==
  last.op = "search" =>
    \A i, j \in 1..Len(last.candidates) :
      (InTitleOnly(last.candidates[i]) /\ InBodyOnly(last.candidates[j]))
        => last.scores[i] > last.scores[j]

\* C17: the score of a candidate is its accumulated score times 0.3 when its
\* body is longer than 10000 characters, times 0.5 when it is longer than
\* 5000 and at most 10000, and the accumulated score itself otherwise
\* (scores in tenths).
C17_DeepestPenaltyTierApplies ==
  last.op = "search" =>
    \A i \in 1..Len(last.candidates) :
      LET item == last.candidates[i]
          content_length == BodyLen(item.content_full)
          score == RawScore(item, last.keywords)
      IN  last.scores[i] =
            IF content_length > 10000 THEN score * 3
            ELSE IF content_length > 5000 THEN score * 5
            ELSE score * 10

\* C18 as stated: of two candidates with the same accumulated score, one
\* with a body longer than 10000 characters and one with a body of at most
\* 5000, the first has the strictly smaller score.
C18_VeryLongBodyScoresLower ==
  last.op = "search" =>
    \A i, j \in 1..Len(last.candidates) :
      (/\ BodyLen(last.candidates[i].content_full) > 10000
       /\ BodyLen(last.candidates[j].content_full) <= 5000
       /\ RawScore(last.candidates[i], last.keywords)
            = RawScore(last.candidates[j], last.keywords))
        => last.scores[i] < last.scores[j]

\* C18 amended: the same for two candidates whose accumulated score is
\* positive; a candidate found through its description alone has the
\* accumulated score 0, and the score 0 whatever its length.
C18_VeryLongBodyScoresLowerWhenPositive ==
  last.op = "search" =>
    \A i, j \in 1..Len(last.candidates) :
      LET score == RawScore(last.candidates[i], last.keywords)
      IN  /\ (/\ BodyLen(last.candidates[i].content_full) > 10000
              /\ BodyLen(last.candidates[j].content_full) <= 5000
              /\ score = RawScore(last.candidates[j], last.keywords)
              /\ score > 0)
               => last.scores[i] < last.scores[j]
          /\ score = 0 => last.scores[i] = 0

\* A search found a document of 12000 characters and one of 500 with the
\* same positive accumulated score.
C18_Witness ==
  /\ last.op = "search"
  /\ \E i, j \in 1..Len(last.candidates) :
       /\ BodyLen(last.candidates[i].content_full) = 12000
       /\ BodyLen(last.candidates[j].content_full) = 500
       /\ RawScore(last.candidates[i], last.keywords) > 0
       /\ RawScore(last.candidates[i], last.keywords)
            = RawScore(last.candidates[j], last.keywords)

\* Filtering removes every token of `query`: each of its words, lower-cased
\* and stripped of punctuation, is a stop word or at most two characters long.
AllTokensDropped(query) ==
  LET words == Split(Lower(query))
  IN  \A i \in 1..Len(words) :
        \/ Strip(words[i], Punctuation) \in StopWords
        \/ Len(Strip(words[i], Punctuation)) <= 2

\* C19: every search has at least one keyword; when filtering removes every
\* token of the query, the only keyword is the lower-cased query; and the
\* search returns a list, of the candidates or of `limit` of them.
C19_KeywordsAreNeverEmpty ==
  last.op = "search" =>
    /\ Len(last.keywords) >= 1
    /\ AllTokensDropped(last.query) => last.keywords = <<Lower(last.query)>>
    /\ Len(last.result) = Min(last.limit, Len(last.candidates))

\* The empty query was searched on a table of three documents: its keyword
\* is the empty string, which every row contains.
C19_Witness ==
  /\ last.op = "search"
  /\ last.query = <<>>
  /\ last.keywords = <<<<>>>>
  /\ Len(db) = 3
  /\ Len(last.candidates) = 3
  /\ Len(last.result) = Min(3, last.limit)

\* The documents of the scenario: "City Council Meeting" with a body of 500
\* characters that contains "mayor", and "Park Cleanup" with a body of 12000
\* characters that contains "mayor" once.
IsCouncilMeeting(item) ==
  /\ item.title = T_COUNCIL
  /\ BodyLen(item.content_full) = 500
  /\ BodyContains(BodyLower(item.content_full), <<"m", "a", "y", "o", "r">>)

IsParkCleanup(item) ==
  /\ item.title = T_PARK_CLEANUP
  /\ BodyLen(item.content_full) = 12000
  /\ BodyCount(BodyLower(item.content_full), <<"m", "a", "y", "o", "r">>) = 1

\* C20: on a table of these two documents, the search for "who is the mayor"
\* with limit 5 returns both, "City Council Meeting" first and with the
\* strictly higher score.
C20_CouncilMeetingRanksFirst ==
  \A c, p \in 1..Len(db) :
    (/\ last.op = "search" /\ last.query = Q_MAYOR /\ last.limit = 5
     /\ Len(db) = 2
     /\ IsCouncilMeeting(db[c]) /\ IsParkCleanup(db[p]))
      => /\ last.result = <<db[c], db[p]>>
         /\ ScoreOf(db[c]) > ScoreOf(db[p])

\* The phrases the sufficiency check is said to look for.
StatedPhrases ==
  {<<"c", "o", "u", "l", "d", "n", "'", "t", " ", "f", "i", "n", "d">>,
   <<"d", "o", "n", "'", "t", " ", "h", "a", "v", "e">>,
   <<"n", "o", " ", "i", "n", "f", "o", "r", "m", "a", "t", "i", "o", "n">>,
   <<"n", "o", "t", " ", "m", "e", "n", "t", "i", "o", "n", "e", "d">>,
   <<"u", "n", "a", "b", "l", "e", " ", "t", "o", " ", "f", "i", "n", "d">>}

\* C21: when the grounded call of an ask() returns an answer that contains,
\* in any letter case, one of the stated phrases, the ask goes on to the
\* fallback call and returns the fallback's result, without sources.
C21_StatedPhrasesRerouteToFallback ==
  last.op = "ask" =>
    \A i \in 1..Len(last.client) :
      (/\ last.client[i].call = "rag"
       /\ last.client[i].out.ok
       /\ \E phrase \in StatedPhrases : Contains(Lower(last.client[i].out.text), phrase))
        => /\ last.calls = <<"search_content", "_generate_answer", "_generate_fallback_answer">>
           /\ last.result[1].sources = <<>>
           /\ last.result[1].answer # last.client[i].out.text

\* One citation per item of `items`, in their order, with the item's title,
\* url, source tag and category.
CitationsOf(items, sources) ==
  /\ Len(sources) = Len(items)
  /\ \A i \in 1..Len(items) :
       /\ DOMAIN sources[i] = {"title", "url", "source", "category"}
       /\ sources[i].title = items[i].title
       /\ sources[i].url = items[i].url
       /\ sources[i].source = items[i].source
       /\ sources[i].category = items[i].category

\* C22: the sources of an accepted ask() and of a stream's `sources` event
\* are one citation per document the ranker returned for the question and
\* the limit, in ranking order, so at most max_sources of them.
C22_SourcesCiteTheRankedDocuments ==
  /\ (last.op = "ask" /\ last.calls = <<"search_content", "_generate_answer">>)
       => /\ CitationsOf(SearchContent(db, last.question, last.max_sources),
                         last.result[1].sources)
          /\ Len(last.result[1].sources) <= last.max_sources
  /\ \A s \in StreamIds :
       \A i \in 1..Len(streams[s].events) :
         streams[s].events[i].type = "sources"
           => /\ CitationsOf(SearchContent(streams[s].rows, streams[s].question,
                                           streams[s].max_sources),
                             streams[s].events[i].data)
              /\ Len(streams[s].events[i].data) <= streams[s].max_sources

\* An accepted ask() cited two documents, the second row of the table first.
C22_Witness ==
  /\ last.op = "ask"
  /\ last.calls = <<"search_content", "_generate_answer">>
  /\ Len(db) = 2
  /\ Len(last.result[1].sources) = 2
  /\ last.result[1].sources[1].url = db[2].url
  /\ last.result[1].sources[2].url = db[1].url

\* The sum of the counts of `counts`, a function from tags to numbers.
RECURSIVE SumOver(_, _)
SumOver(counts, tags) ==
  IF tags = {} THEN 0
  ELSE LET tag == CHOOSE t \in tags : TRUE
       IN  counts[tag] + SumOver(counts, tags \ {tag})

\* C23: in what count_items returns, the counts by source sum to `total`,
\* and so do the counts by category.
C23_StatsPartitionTheStore ==
  last.op = "count_items" =>
    /\ last.stats.total = Len(db)
    /\ SumOver(last.stats.by_source, DOMAIN last.stats.by_source) = last.stats.total
    /\ SumOver(last.stats.by_category, DOMAIN last.stats.by_category) = last.stats.total

CompleteExchanges(turns) ==
  /\ Len(turns) % 2 = 0
  /\ \A i \in 1..Len(turns) :
       turns[i].role = IF i % 2 = 1 THEN "user" ELSE "assistant"

\* C25: every history is a sequence of complete exchanges, and a step changes
\* a history only by appending one whole exchange to it - the user turn and
\* the assistant turn of one request together - or by starting it or
\* dropping it.
C25_HistoriesAreCompleteExchanges ==
  [][\A c \in ConvIds :
       /\ CompleteExchanges(TurnsIn(conversations', c))
       /\ \/ TurnsIn(conversations', c) = Turns(c)
          \/ TurnsIn(conversations', c) = <<>>
          \/ /\ Len(TurnsIn(conversations', c)) = Len(Turns(c)) + 2
             /\ SubSeq(TurnsIn(conversations', c), 1, Len(Turns(c))) = Turns(c)
             /\ \/ /\ last'.op = "ask" /\ last'.conversation_id = c
                   /\ TurnsIn(conversations', c)[Len(Turns(c)) + 1].content = last'.question
                   /\ TurnsIn(conversations', c)[Len(Turns(c)) + 2].content
                        = last'.result[1].answer
                \/ \E s \in StreamIds :
                     /\ streams[s].pc # "done" /\ streams'[s].pc \in {"done", "fbtoken"}
                     /\ streams'[s].conversation_id = c
                     /\ TurnsIn(conversations', c)[Len(Turns(c)) + 1].content
                          = streams'[s].question
                     /\ TurnsIn(conversations', c)[Len(Turns(c)) + 2].content
                          = streams'[s].full_answer]_vars

\* A stream finished on a conversation that gained an exchange of another
\* request while the stream was under way.
C25_Witness ==
  \E s \in StreamIds :
    /\ streams[s].pc = "done"
    /\ HasEvent(streams[s].events, "sources")
    /\ streams[s].prior = 0
    /\ Len(Turns(streams[s].conversation_id)) = 4

\* C26: a stream that has sent its `sources` event ends with `done`, its
\* exchange the last of the conversation's history, and not with the
\* generator raising (which generate() reports as an `error` event) - also
\* when clear_conversation ran on its conversation id in between.
C26_ClearedStreamStillFinishes ==
  [][\A s \in StreamIds :
       (streams[s].pc \in {"sources", "token"} /\ streams'[s].pc \notin {"sources", "token"})
         => LET c == streams'[s].conversation_id
                turns == TurnsIn(conversations', c)
            IN  /\ streams'[s].pc = "done"
                /\ Len(turns) >= 2
                /\ turns[Len(turns) - 1] = Turn("user", streams'[s].question)
                /\ turns[Len(turns)] = Turn("assistant", streams'[s].full_answer)]_vars

\* The characters of a word, lower-cased.
WordChars ==
  {"a", "b", "c", "d", "e", "f", "g", "h", "i", "j", "k", "l", "m", "n", "o", "p",
   "q", "r", "s", "t", "u", "v", "w", "x", "y", "z", "_"}
    \cup {Digits[i] : i \in 1..Len(Digits)}

IsWord(keyword) ==
  keyword # <<>> /\ \A i \in 1..Len(keyword) : keyword[i] \in WordChars

\* `keyword` occurs in s with no word character right before or right after
\* it: at a word boundary, the start and the end of s included.
OccursAsWord(s, keyword) ==
  \E p \in 1..(Len(s) - Len(keyword) + 1) :
    /\ SubSeq(s, p, p + Len(keyword) - 1) = keyword
    /\ p = 1 \/ s[p - 1] \notin WordChars
    /\ p + Len(keyword) > Len(s) \/ s[p + Len(keyword)] \notin WordChars

\* The score as stated: per keyword 100 for the title, 50 for the body
\* holding it as a word, and the number of its occurrences in the body.
RECURSIVE StatedScore(_, _)
StatedScore(item, keywords) ==
  IF keywords = <<>> THEN 0
  ELSE LET keyword == Head(keywords)
           body == BodyNear(BodyLower(item.content_full), Len(keyword) + 1)
       IN  (IF Contains(Lower(item.title), keyword) THEN 100 ELSE 0)
           + (IF OccursAsWord(body, keyword) THEN 50 ELSE 0)
           + CountFrom(body, keyword, 1)
           + StatedScore(item, Tail(keywords))

\* C27: for a search whose keywords are words, the score of every candidate
\* before the length penalty is the stated sum.
C27_ScoreCountsWordBoundaries ==
  (last.op = "search" /\ \A k \in 1..Len(last.keywords) : IsWord(last.keywords[k]))
    => \A i \in 1..Len(last.candidates) :
         last.accumulated[i] = StatedScore(last.candidates[i], last.keywords)

\* A keyword of the last search is in the title, the body or the description
\* of `item`, in any letter case.
HoldsAKeyword(item) ==
  \E k \in 1..Len(last.keywords) :
    \/ Contains(Lower(item.title), last.keywords[k])
    \/ BodyContains(BodyLower(item.content_full), last.keywords[k])
    \/ Contains(Lower(item.description), last.keywords[k])

\* C28: a search returns min(limit, c) documents, c being the number of rows
\* that hold a keyword, and none of them twice; so none when the table is
\* empty or no row holds a keyword.
C28_ResultHoldsTheMatchingDocuments ==
  last.op = "search" =>
    LET c == Cardinality({i \in 1..Len(db) : HoldsAKeyword(db[i])})
    IN  /\ Len(last.result) = Min(last.limit, c)
        /\ \A i, j \in 1..Len(last.result) : last.result[i] = last.result[j] => i = j
        /\ \A i \in 1..Len(last.result) : HoldsAKeyword(last.result[i])

\* The question lower-cased and without leading and trailing whitespace.
Normalized(question) == Strip(Lower(question), Whitespace)

\* C29: a first-turn ask() of a question whose normalized form is that of a
\* cached result's question returns that result, calling neither the ranker
\* nor the client; and a result served from the cache was stored for a
\* question of the same normalized form.
C29_CacheKeyIsTheNormalizedQuestion ==
  [][last'.op = "ask" =>
       /\ (Turns(last'.conversation_id) = <<>>)
            => \A key \in DOMAIN cache :
                 Normalized(cache[key].query) = Normalized(last'.question)
                   => /\ last'.result = <<cache[key]>>
                      /\ last'.calls = <<>>
       /\ last'.calls = <<>>
            => Normalized(last'.result[1].query) = Normalized(last'.question)
       /\ \A key1, key2 \in DOMAIN cache' :
            Normalized(cache'[key1].query) = Normalized(cache'[key2].query)
              => key1 = key2]_vars

\* A first-turn ask() was served the result cached for a question of another
\* spelling, while the cache also holds a result for a different question.
C29_Witness ==
  /\ last.op = "ask"
  /\ last.calls = <<>>
  /\ last.result[1].query # last.question
  /\ Cardinality(DOMAIN cache) = 2

\* The search of the call of stream `st` returned no document.
EmptyRetrieval(st) == SearchContent(st.rows, st.question, st.max_sources) = <<>>

\* C30: every `done` event of ask_stream() carries the conversation id of the
\* call; a call whose search returns nothing emits no `sources` event, emits
\* first one `token` event holding the fallback answer the conversation
\* received, and ends with a `done` event that carries an empty source list
\* and the conversation id, with no other event.
C30_DoneCarriesTheConversation ==
  [][\A s \in StreamIds :
       LET st == streams'[s]
           events == st.events
           turns == TurnsIn(conversations', st.conversation_id)
       IN  /\ \A i \in 1..Len(events) :
                events[i].type = "done"
                  => /\ "conversation_id" \in DOMAIN events[i].data
                     /\ events[i].data.conversation_id = st.conversation_id
           /\ (st.pc # "idle" /\ EmptyRetrieval(st))
                => /\ ~HasEvent(events, "sources")
                   /\ CountEvents(events, "token") = 1
                   /\ events[1].type = "token"
           /\ (streams[s].pc = "idle" /\ st.pc # "idle" /\ EmptyRetrieval(st))
                => /\ Len(events) = 1
                   /\ Len(turns) >= 2
                   /\ turns[Len(turns) - 1] = Turn("user", st.question)
                   /\ turns[Len(turns)] = Turn("assistant", events[1].data)
           /\ (streams[s].pc \notin {"idle", "done"} /\ st.pc = "done"
                 /\ EmptyRetrieval(st))
                => events = <<streams[s].events[1],
                              Event("done", [sources |-> <<>>,
                                             conversation_id |-> st.conversation_id])>>]_vars

\* A streaming ask on a table that holds documents found none of them and
\* has finished with its `done` event.
C30_Witness ==
  \E s \in StreamIds :
    /\ streams[s].pc = "done"
    /\ streams[s].rows # <<>>
    /\ EmptyRetrieval(streams[s])
    /\ streams[s].events[Len(streams[s].events)].type = "done"

\* `content` is the first characters of `body`, ContextCap of them at most.
IsCappedPrefix(content, body) ==
  /\ BodyLen(content) = Min(BodyLen(body), ContextCap)
  /\ Len(content.text) <= Len(body.text)
  /\ content.text = SubSeq(body.text, 1, Len(content.text))
  /\ content.pad > 0 => content.text = body.text

RECURSIVE ContextBodyLen(_)
ContextBodyLen(context) ==
  IF context = <<>> THEN 0
  ELSE BodyLen(Head(context).content) + ContextBodyLen(Tail(context))

\* `context` has one block per document of `ranked`, in that order, each
\* numbered from 1 and holding the document's title, source tag, url and the
\* capped prefix of its body.
IsContextOf(context, ranked) ==
  /\ Len(context) = Len(ranked)
  /\ \A i \in 1..Len(context) :
       /\ context[i].index = i
       /\ context[i].title = ranked[i].title
       /\ context[i].source = ranked[i].source
       /\ context[i].url = ranked[i].url
       /\ IsCappedPrefix(context[i].content, ranked[i].content_full)
  /\ ContextBodyLen(context) <= ContextCap * Len(ranked)

\* C31: the context of every grounded prompt, of ask() and of ask_stream(),
\* has one block per ranked document in ranking order, each with at most the
\* first 2000 characters of the document's body, so that the bodies of a
\* context together are at most 2000 characters per ranked document.
C31_ContextIsCappedPerDocument ==
  /\ last.op = "ask"
       => \A i \in 1..Len(last.client) :
            last.client[i].call = "rag"
              => IsContextOf(last.client[i].context,
                             SearchContent(db, last.question, last.max_sources))
  /\ \A s \in StreamIds :
       (streams[s].pc \in {"token", "done"} /\ HasEvent(streams[s].events, "sources"))
         => IsContextOf(streams[s].context,
                        SearchContent(streams[s].rows, streams[s].question,
                                      streams[s].max_sources))

\* An ask() built its grounded prompt from two ranked documents, the first
\* with a body longer than the cap and the second with a shorter one.
C31_Witness ==
  /\ last.op = "ask"
  /\ \E i \in 1..Len(last.client) :
       /\ last.client[i].call = "rag"
       /\ Len(last.client[i].context) = 2
       /\ BodyLen(last.client[i].context[1].content) = ContextCap
       /\ BodyLen(last.client[i].context[2].content) < ContextCap
  /\ BodyLen(db[1].content_full) > ContextCap \/ BodyLen(db[2].content_full) > ContextCap

\* C32: the result an ask() returns, cache hits included, names the
\* conversation id and the question of that call.
C32_ResultEchoesTheCall ==
  (last.op = "ask" /\ last.result # <<>>)
    => /\ last.result[1].conversation_id = last.conversation_id
       /\ last.result[1].query = last.question

\* The texts the except branches of _generate_answer,
\* _generate_fallback_answer and _generate_answer_stream make of the exception.
HandlerTexts == {ErrGrounded \o ExcText, ErrFallback \o ExcText, ErrStream \o ExcText}

HoldsHandlerText(answer) == \E text \in HandlerTexts : Contains(answer, text)

\* C33: no cache entry and no assistant turn of a conversation holds a text
\* made by the exception handler of a failed client call.
C33_HandlerTextIsNeverKept ==
  /\ \A key \in DOMAIN cache : ~HoldsHandlerText(cache[key].answer)
  /\ \A c \in DOMAIN conversations :
       \A i \in 1..Len(conversations[c]) :
         conversations[c][i].role = "assistant"
           => ~HoldsHandlerText(conversations[c][i].content)

\* C34: every step, of ask(), ask_stream(), clear_conversation() or a save,
\* leaves every entry of the cache in place with its value.
C34_CacheOnlyGrows ==
  [][\A key \in DOMAIN cache :
       key \in DOMAIN cache' /\ cache'[key] = cache[key]]_vars

\* The cache holds an entry for the question of the ask() just made; that
\* ask ran generation as a later turn of another conversation than the
\* entry's and returned another answer than the entry's.
C34_Witness ==
  /\ last.op = "ask"
  /\ last.calls # <<>>
  /\ last.prior > 0
  /\ CacheKey(last.question) \in DOMAIN cache
  /\ last.result # <<>>
  /\ cache[CacheKey(last.question)].answer # last.result[1].answer
  /\ cache[CacheKey(last.question)].conversation_id # last.conversation_id

\* The ask() that `op` records was served from the cache.
ServedFromCache(op) == op.op = "ask" /\ op.calls = <<>> /\ op.result # <<>>

\* C35: an ask() served from the cache changes no entry of the cache and no
\* turn of any conversation, and leaves its conversation without turns; and
\* an ask() that follows it on the same conversation id with a question the
\* cache holds is served from the cache too.
C35_CacheHitChangesNothing ==
  [][/\ ServedFromCache(last')
         => /\ cache' = cache
            /\ \A c \in ConvIds :
                 TurnsIn(conversations', c) = TurnsIn(conversations, c)
            /\ last'.conversation_id \in DOMAIN conversations'
            /\ conversations'[last'.conversation_id] = <<>>
     /\ (/\ ServedFromCache(last)
         /\ last'.op = "ask"
         /\ last'.conversation_id = last.conversation_id
         /\ CacheKey(last'.question) \in DOMAIN cache)
         => /\ ServedFromCache(last')
            /\ last'.result = <<cache[CacheKey(last'.question)]>>]_vars

\* The cache holds two entries and the ask() just served from it was made on
\* a conversation the other conversation's call did not write: its id has a
\* session without turns, while the result names the other id.
C35_Witness ==
  /\ ServedFromCache(last)
  /\ Cardinality(DOMAIN cache) = 2
  /\ last.conversation_id \in DOMAIN conversations
  /\ conversations[last.conversation_id] = <<>>
  /\ last.result[1].conversation_id # last.conversation_id

\* C36: a first-turn ask() of a question that an ask() under another
\* conversation id answered as a first turn, in the same normalized form, is
\* served the cached result, which is the result that ask() was given, and
\* calls neither search_content nor the client.
C36_CacheIsSharedAcrossConversations ==
  [][(last'.op = "ask" /\ Turns(last'.conversation_id) = <<>>)
       => \A asked \in DOMAIN first_turn :
            (/\ asked[1] # last'.conversation_id
             /\ Normalized(asked[2]) = Normalized(last'.question))
              => /\ last'.calls = <<>>
                 /\ last'.client = <<>>
                 /\ CacheKey(last'.question) \in DOMAIN cache
                 /\ last'.result = <<cache[CacheKey(last'.question)]>>
                 /\ last'.result = <<first_turn[asked]>>]_vars

\* The first-turn ask() just made under "c2" was served the result of the
\* first-turn ask() of "c1", which spelled the question differently; "c2"
\* had asked nothing as a first turn before.
C36_Witness ==
  /\ ServedFromCache(last)
  /\ last.conversation_id = "c2"
  /\ last.result[1].conversation_id = "c1"
  /\ last.result[1].query # last.question
  /\ \A asked \in DOMAIN first_turn : asked[1] = "c2" => asked[2] = last.question

\* The exchange of the stream `st`: its question, then the concatenation of
\* its `token` payloads in the order emitted.
StreamedExchange(st) ==
  <<Turn("user", st.question), Turn("assistant", TokenText(st.events))>>

\* The step emitted the `done` event of stream s as the stream's last event.
EmitsDone(s) ==
  /\ ~HasEvent(streams[s].events, "done")
  /\ streams'[s].events # <<>>
  /\ streams'[s].events[Len(streams'[s].events)].type = "done"

IsTerminalFrame(frame) == frame \in {"complete", "error"}

\* C38: in every SSE response a terminal frame, `complete` or `error`, is the
\* last frame, so there is one at most and nothing follows it; a response
\* that is over ends with one; and `complete` comes directly after the
\* handler's `done`.
C38_ResponseEndsWithOneTerminalFrame ==
  \A s \in StreamIds :
    LET frames == Frames(streams[s])
    IN  /\ \A i \in 1..Len(frames) : IsTerminalFrame(frames[i]) => i = Len(frames)
        /\ streams[s].pc = "closed"
             => frames # <<>> /\ IsTerminalFrame(frames[Len(frames)])
        /\ \A i \in 1..Len(frames) :
             frames[i] = "complete" => i > 1 /\ frames[i - 1] = "done"

\* A response that forwarded `sources` and a token is over and ended with
\* `error`: the conversation was cleared under the stream.
C38_Witness ==
  \E s \in StreamIds :
    LET frames == Frames(streams[s])
    IN  /\ streams[s].pc = "closed"
        /\ Len(frames) >= 3
        /\ frames[1] = "sources"
        /\ frames[2] = "token"
        /\ frames[Len(frames)] = "error"

\* C39: during scrape() no URL is handed to fetch_page twice, every URL
\* fetched passes _is_valid_url, no more than max_pages URLs are fetched,
\* and the items collected are of fetched URLs, one per URL at most.
C39_CrawlFetchesEachValidUrlOnce ==
  LET fetched == crawler.fetched
      all_content == crawler.all_content
  IN  /\ \A i, j \in 1..Len(fetched) : fetched[i].url = fetched[j].url => i = j
      /\ \A i \in 1..Len(fetched) : IsValidUrl(fetched[i].url)
      /\ Len(fetched) <= crawler.max_pages
      /\ \A i \in 1..Len(all_content) :
           \E k \in 1..Len(fetched) : fetched[k].url = all_content[i].url
      /\ \A i, j \in 1..Len(all_content) :
           all_content[i].url = all_content[j].url => i = j

\* A crawl has ended at max_pages fetches with URLs still queued; a page
\* fetched linked to itself and a page seen later linked back to it.
C39_Witness ==
  LET fetched == crawler.fetched
  IN  /\ crawler.pc = "done"
      /\ Len(fetched) = crawler.max_pages
      /\ crawler.to_visit # <<>>
      /\ Len(crawler.all_content) = 2
      /\ \E i \in 1..Len(fetched) : InSeq(fetched[i].url, fetched[i].links)
      /\ \E i, j \in 1..Len(fetched) : i < j /\ InSeq(fetched[i].url, fetched[j].links)

\* C40: a scrape() that has begun leaves its loop, and it has left it with
\* an empty queue or with max_pages URLs visited.
C40_CrawlTerminates ==
  /\ (crawler.pc = "loop") ~> (crawler.pc = "done")
  /\ [](crawler.pc = "done"
          => \/ crawler.to_visit = <<>>
             \/ Cardinality(crawler.visited_urls) = crawler.max_pages)

\* A crawl has ended with an empty queue before max_pages URLs were visited,
\* having met a page that links to itself, two pages that link to each
\* other and a URL whose fetch failed.
C40_Witness ==
  LET fetched == crawler.fetched
  IN  /\ crawler.pc = "done"
      /\ crawler.to_visit = <<>>
      /\ \E i \in 1..Len(fetched) : InSeq(fetched[i].url, fetched[i].links)
      /\ \E i, j \in 1..Len(fetched) :
           /\ i # j
           /\ InSeq(fetched[i].url, fetched[j].links)
           /\ InSeq(fetched[j].url, fetched[i].links)
      /\ \E i \in 1..Len(fetched) : ~fetched[i].ok
      /\ Cardinality(crawler.visited_urls) < crawler.max_pages

====
